---- MODULE Spec2Model ----
(***************************************************************************)
(* Model of the trace collector of browser-agent/src/trace-collector.ts:   *)
(* the TraceCollector instance (currentSession, actionBuffer), the session *)
(* objects it hands out, the four line-delimited logs it appends to, and   *)
(* the calls startSession / recordAction / endSession, the asynchronous    *)
(* ones split at their await points; and of the supervision loop of        *)
(* browser-agent/ralph-cc.sh (variable loop).                              *)
(*                                                                         *)
(* Optional values (TypeScript `x?: T`, `undefined`) are sets with at most *)
(* one element: {} is undefined, {v} is the value v.                       *)
(***************************************************************************)
EXTENDS Integers, Sequences, FiniteSets, TLC

\* ------------------------------------------------------------------ bounds
\* events of one behaviour: the startSession calls, the recordAction calls
\* that pass the precondition, and the milliseconds that pass on the clock
\* besides the settle delay
MaxEvents == 4

\* longest action sequence of a session handed to createPreferencePair
MaxPrefLen == 2

\* most elements of a page that match the interactive-element selectors
MaxPageElements == 150

\* how far below and above a size cap the lengths of the captured page go
MaxOverCap == 2

\* most actions of a session whose SFT examples are synthesized on their own
MaxSessionLen == 7

\* largest iteration count ($1) a ralph-cc.sh run is started with
MaxIterations == 3

\* largest maxIterations the demo's ralphLoop is called with
MaxDemoIterations == 10

\* the callers of one collector; the callers of this repository await every
\* call before they make the next one, so one caller is active under Spec
AllCallers == {"main", "other"}
Slots      == {"main"}

\* --------------------------------------------------------------- constants
NoSession   == 0     \* `currentSession = null`
SettleDelay == 500   \* setTimeout(r, 500)
StartPage   == "about:blank"

\* ------------------------------------------------------------------ inputs
Tasks     == {"extract pricing"}
StartUrls == {"https://higgsfield.ai"}
Models    == {"claude-sonnet"}

\* (type, instruction) pairs the callers pass: TracedAgent.navigate / act
ActionInputs ==
  { [type |-> "navigate", instruction |-> "Navigate to https://higgsfield.ai"],
    [type |-> "click",    instruction |-> "Click on Pricing link"] }

\* What the awaited execute() callback can do: resolve with a value, resolve
\* with nothing, or reject with an arbitrary JavaScript value.
ExecOutcomes ==
  { [ok |-> TRUE,  result |-> {"data"},  kind |-> "value",   message |-> {}],
    [ok |-> FALSE, result |-> {},        kind |-> "Error",   message |-> {"boom"}],
    [ok |-> FALSE, result |-> {},        kind |-> "Error",   message |-> {""}],
    [ok |-> FALSE, result |-> {},        kind |-> "string",  message |-> {}],
    [ok |-> FALSE, result |-> {},        kind |-> "nullish", message |-> {}] }

\* (success, humanRating?, humanFeedback?) as the callers pass them
EndArgs ==
  { [success |-> TRUE,  humanRating |-> {5}, humanFeedback |-> {"Completed all steps successfully"}],
    [success |-> FALSE, humanRating |-> {1}, humanFeedback |-> {"Failed"}],
    [success |-> TRUE,  humanRating |-> {},  humanFeedback |-> {}] }

\* ------------------------------------------------------------------- state
VARIABLES
  currentSession,  \* this.currentSession: a session reference or NoSession
  actionBuffer,    \* this.actionBuffer
  sessions,        \* the SessionTrace objects created so far, by reference
  rawLog,          \* training-data/raw_actions.jsonl
  tracesLog,       \* training-data/traces.jsonl
  sftLog,          \* training-data/sft_data.jsonl
  prefLog,         \* training-data/preference_pairs.jsonl
  page,            \* the URL the browser page shows
  now,             \* Date.now()
  nextId,          \* number of ids generateId has produced, plus one
  calls,           \* per caller slot: the call in flight and where it is
  ret,             \* per caller slot: how its last call ended
  execOrder,       \* history: action ids in the order execute() was invoked
  closed,          \* history: sessions a completed endSession returned
  budget,          \* history: the events counted against MaxEvents
  loop,            \* ralph-cc.sh: the shell variables and files of one run
  demo,            \* demo-ralph-loop.ts: prd.json and the loop of one run
  video,           \* video-generator.ts: one generateVideo call
  gen              \* generate-training-data.ts: one generateTrainingData call

collector == <<currentSession, actionBuffer>>
logs      == <<rawLog, tracesLog, sftLog, prefLog>>
vars == <<currentSession, actionBuffer, sessions, rawLog, tracesLog, sftLog,
          prefLog, page, now, nextId, calls, ret, execOrder, closed, budget,
          loop, demo, video, gen>>
\* the programs that are not the collector
programs == <<loop, demo, video, gen>>

\* ----------------------------------------------------------------- helpers
\* no ralph-cc.sh run: the collector is driven by a TypeScript caller
NoLoop == [pc |-> "off"]
\* no run of the demo loop, no generateVideo call, no generateTrainingData call
NoDemo == [pc |-> "off"]
NoVideo == [pc |-> "off"]
NoGen == [pc |-> "off"]

Idle == [op |-> "idle", pc |-> "idle", args |-> <<>>, loc |-> <<>>]

\* no call has ended yet, or one is in flight
NoRet == [op |-> "none", status |-> "none", error |-> "", value |-> <<>>,
          execThrew |-> FALSE]

Returned(op, value, execThrew) ==
  [op |-> op, status |-> "returned", error |-> "", value |-> value,
   execThrew |-> execThrew]

Threw(op, error, execThrew) ==
  [op |-> op, status |-> "threw", error |-> error, value |-> <<>>,
   execThrew |-> execThrew]

NoActiveSessionRecord == "No active session. Call startSession first."
NoActiveSessionEnd    == "No active session"
TypeErrorNull         == "TypeError: Cannot read properties of null"

\* crypto.randomBytes(8).toString('hex'): a value not produced before
GenerateId(n) == n

\* the part of the page the snapshot reads, as a function of the URL shown
PageTitle(url) == IF url = StartPage THEN "" ELSE "Higgsfield"
PageText(url)  == IF url = StartPage THEN "" ELSE "Pricing Docs"
\* the elements matching the selector list of line 183, in document order,
\* each with the size of its bounding box
PageElements(url) ==
  IF url = StartPage THEN <<>>
  ELSE << [selector |-> "a.nav", tag |-> "a", text |-> "Pricing",
           width |-> 80, height |-> 20] >>

\* line 186: `if (i > 100) return;  // Limit to 100 elements`
ElementLimit == 100

\* lines 185-211: forEach((el, i) => ...) over the matching elements; i is
\* the 0-based position among all of them, rendered or not. An entry holds
\* the element's selector, tag, text and bounding box.
InteractiveElements(matching) ==
  LET kept == SelectSeq([k \in 1..Len(matching) |-> k],
                        LAMBDA k : /\ ~(k - 1 > ElementLimit)
                                   /\ ~(matching[k].width = 0 \/ matching[k].height = 0))
  IN [j \in 1..Len(kept) |-> matching[kept[j]]]

CaptureDOMSnapshot(url, t) ==
  [url |-> url, title |-> PageTitle(url), text |-> PageText(url),
   interactiveElements |-> InteractiveElements(PageElements(url)), timestamp |-> t]

\* `${this.currentSession?.id || 'unknown'}_${name}_${Date.now()}.png`
CaptureScreenshot(cur, actionId, marker, t) ==
  [session |-> IF cur = NoSession THEN {} ELSE {sessions[cur].id},
   action |-> actionId, marker |-> marker, at |-> t]

\* what the page shows once execute() has run
PageAfter(url, type, outcome) ==
  IF type = "navigate" /\ outcome.ok THEN "https://higgsfield.ai" ELSE url

NewSession(sessionId, task, startUrl, model, t) ==
  [id |-> sessionId, task |-> task, startUrl |-> startUrl, actions |-> <<>>,
   success |-> FALSE, finalState |-> {}, humanRating |-> {},
   humanFeedback |-> {}, model |-> model, totalDuration_ms |-> 0,
   timestamp |-> t]

\* mutants: the check for an open session left out
RecordActionPreconditionOff(cur) == TRUE
EndSessionPreconditionOff(cur) == TRUE

\* `if (!this.currentSession) throw ...` of recordAction and of endSession
RecordActionPrecondition(cur) == cur # NoSession
EndSessionPrecondition(cur)   == cur # NoSession

\* mutant: unshift instead of push
PushActionFront(actions, trace) == <<trace>> \o actions

\* this.currentSession.actions.push(trace)
PushAction(actions, trace) == Append(actions, trace)

\* mutant: the line stays in a buffer that is lost when the process stops
AppendToFileBuffered(file, data) == file
\* lines 335-337, appendToFile: fs.appendFileSync returns once the line is in
\* the file; the file is the sequence of its lines
AppendToFile(file, data) == Append(file, data)

\* { type: 'action', ...trace }: the spread comes last, so the keys of the
\* trace (its own `type` among them) overwrite the ones written before it
AppendTrace(trace) == trace @@ [type |-> "action"]

\* mutant: the open-session slot is not cleared
SlotAfterEndKept(cur) == cur

\* `this.currentSession = null` at the end of endSession
SlotAfterEnd(cur) == NoSession

\* mutant: the window is taken from the start of the session
LastNOldest(s, n) == IF Len(s) <= n THEN s ELSE SubSeq(s, 1, n)
\* Array.prototype.slice(-n)
LastN(s, n) == IF Len(s) <= n THEN s ELSE SubSeq(s, Len(s) - n + 1, Len(s))
FirstN(s, n) == IF Len(s) <= n THEN s ELSE SubSeq(s, 1, n)

FormatStateForTraining(dom, previousActions) ==
  [url |-> dom.url, title |-> dom.title, text |-> dom.text,
   elements |-> FirstN(dom.interactiveElements, 30),
   previous |-> [k \in 1..Len(LastN(previousActions, 5)) |->
                   [type |-> LastN(previousActions, 5)[k].type,
                    instruction |-> LastN(previousActions, 5)[k].instruction]]]

FormatActionForTraining(action) ==
  [action |-> action.type, instruction |-> action.instruction,
   selector |-> action.selector, value |-> action.value]

\* mutant: the example is labelled with the session's success flag
SFTExampleAtSessionFlag(session, i) ==
  [id |-> <<"sft", session.id, i>>,
   instruction |-> session.task,
   input |-> FormatStateForTraining(session.actions[i + 1].beforeDOM,
                                    SubSeq(session.actions, 1, i)),
   output |-> FormatActionForTraining(session.actions[i + 1]),
   metadata |-> [success |-> session.success,
                 source_trace_id |-> session.id,
                 action_index |-> i]]

\* the example generateSFTExamples builds for the action at 0-based index i
SFTExampleAt(session, i) ==
  [id |-> <<"sft", session.id, i>>,
   instruction |-> session.task,
   input |-> FormatStateForTraining(session.actions[i + 1].beforeDOM,
                                    SubSeq(session.actions, 1, i)),
   output |-> FormatActionForTraining(session.actions[i + 1]),
   metadata |-> [success |-> session.actions[i + 1].success,
                 source_trace_id |-> session.id,
                 action_index |-> i]]

\* mutant: failed actions are filtered out before the loop
GenerateSFTExamplesSkipFailed(session) ==
  LET kept == SelectSeq([k \in 1..Len(session.actions) |-> k],
                        LAMBDA k : session.actions[k].success)
  IN [j \in 1..Len(kept) |-> SFTExampleAt(session, kept[j] - 1)]

\* for (let i = 0; i < session.actions.length; i++) appendToFile(SFT_FILE, ..)
GenerateSFTExamples(session) ==
  [k \in 1..Len(session.actions) |-> SFTExampleAt(session, k - 1)]

\* -------------------------------------------------------------------- Init
Init ==
  /\ currentSession = NoSession
  /\ actionBuffer = <<>>
  /\ sessions = <<>>
  /\ rawLog = <<>>
  /\ tracesLog = <<>>
  /\ sftLog = <<>>
  /\ prefLog = <<>>
  /\ page = StartPage
  /\ now = 0
  /\ nextId = 1
  /\ calls = [c \in AllCallers |-> Idle]
  /\ ret = [c \in AllCallers |-> NoRet]
  /\ execOrder = <<>>
  /\ closed = {}
  /\ budget = 0
  /\ loop = NoLoop
  /\ demo = NoDemo
  /\ video = NoVideo
  /\ gen = NoGen

\* ------------------------------------------------------------ startSession
StartSession(c, task, startUrl, model) ==
  /\ calls[c].op = "idle"
  /\ budget < MaxEvents
  /\ LET sessionId == GenerateId(nextId) IN
       /\ sessions' = (sessionId :> NewSession(sessionId, task, startUrl, model, now))
                        @@ sessions
       /\ currentSession' = sessionId
       /\ ret' = [ret EXCEPT ![c] = Returned("startSession", sessionId, FALSE)]
  /\ nextId' = nextId + 1
  /\ budget' = budget + 1
  /\ UNCHANGED <<actionBuffer, logs, page, now, calls, execOrder, closed>>
  /\ UNCHANGED programs

\* ------------------------------------------------------------ recordAction
\* lines 243-251: the precondition, the id, the start time, and the call of
\* captureDOMSnapshot up to its first await
RecordActionBegin(c, input) ==
  /\ calls[c].op = "idle"
  /\ IF ~RecordActionPrecondition(currentSession)
       THEN /\ ret' = [ret EXCEPT ![c] = Threw("recordAction", NoActiveSessionRecord, FALSE)]
            /\ UNCHANGED <<calls, nextId, budget>>
       ELSE /\ budget < MaxEvents
            /\ calls' = [calls EXCEPT ![c] =
                 [op |-> "recordAction", pc |-> "beforeDOM", args |-> input,
                  loc |-> [actionId |-> GenerateId(nextId), startTime |-> now]]]
            /\ nextId' = nextId + 1
            /\ budget' = budget + 1
            /\ ret' = [ret EXCEPT ![c] = NoRet]
  /\ UNCHANGED <<collector, sessions, logs, page, now, execOrder, closed>>
  /\ UNCHANGED programs

\* line 251
RecordBeforeDOM(c) ==
  /\ calls[c].op = "recordAction" /\ calls[c].pc = "beforeDOM"
  /\ calls' = [calls EXCEPT ![c].pc = "beforeShot",
                            ![c].loc = @ @@ [beforeDOM |-> CaptureDOMSnapshot(page, now)]]
  /\ UNCHANGED <<collector, sessions, logs, page, now, nextId, ret, execOrder, closed, budget>>
  /\ UNCHANGED programs

\* line 252
RecordBeforeShot(c) ==
  /\ calls[c].op = "recordAction" /\ calls[c].pc = "beforeShot"
  /\ calls' = [calls EXCEPT ![c].pc = "execute",
                            ![c].loc = @ @@ [beforeScreenshot |->
                               CaptureScreenshot(currentSession, calls[c].loc.actionId, "before", now)]]
  /\ UNCHANGED <<collector, sessions, logs, page, now, nextId, ret, execOrder, closed, budget>>
  /\ UNCHANGED programs

\* `error = (e as Error).message`: reading .message of null or undefined
\* raises a TypeError inside the catch block, which leaves recordAction
MessageRaises(outcome) == outcome.kind = "nullish"

\* lines 254-263
RecordExecute(c, outcome) ==
  /\ calls[c].op = "recordAction" /\ calls[c].pc = "execute"
  /\ execOrder' = Append(execOrder, calls[c].loc.actionId)
  /\ page' = PageAfter(page, calls[c].args.type, outcome)
  /\ IF ~outcome.ok /\ MessageRaises(outcome)
       THEN /\ calls' = [calls EXCEPT ![c] = Idle]
            /\ ret' = [ret EXCEPT ![c] = Threw("recordAction", TypeErrorNull, TRUE)]
       ELSE /\ calls' = [calls EXCEPT ![c].pc = "settle",
                           ![c].loc = @ @@ [success |-> outcome.ok,
                                            error |-> outcome.message,
                                            result |-> outcome.result,
                                            execThrew |-> ~outcome.ok]]
            /\ UNCHANGED ret
  /\ UNCHANGED <<collector, sessions, logs, now, nextId, closed, budget>>
  /\ UNCHANGED programs

\* mutant: the after-snapshot is taken without waiting for the page to settle
RecordSettleSkipped(c) ==
  /\ calls[c].op = "recordAction" /\ calls[c].pc = "settle"
  /\ calls' = [calls EXCEPT ![c].pc = "afterDOM"]
  /\ UNCHANGED <<collector, sessions, logs, page, now, nextId, ret, execOrder, closed, budget>>
  /\ UNCHANGED programs

\* line 266
RecordSettle(c) ==
  /\ calls[c].op = "recordAction" /\ calls[c].pc = "settle"
  /\ now' = now + SettleDelay
  /\ calls' = [calls EXCEPT ![c].pc = "afterDOM"]
  /\ UNCHANGED <<collector, sessions, logs, page, nextId, ret, execOrder, closed, budget>>
  /\ UNCHANGED programs

\* line 269
RecordAfterDOM(c) ==
  /\ calls[c].op = "recordAction" /\ calls[c].pc = "afterDOM"
  /\ calls' = [calls EXCEPT ![c].pc = "afterShot",
                            ![c].loc = @ @@ [afterDOM |-> CaptureDOMSnapshot(page, now)]]
  /\ UNCHANGED <<collector, sessions, logs, page, now, nextId, ret, execOrder, closed, budget>>
  /\ UNCHANGED programs

\* the ActionTrace of lines 272-284; recordAction sets neither selector nor value
BuildTrace(args, loc, afterScreenshot, t) ==
  [id |-> loc.actionId, type |-> args.type, instruction |-> args.instruction,
   selector |-> {}, value |-> {},
   beforeDOM |-> loc.beforeDOM, beforeScreenshot |-> loc.beforeScreenshot,
   afterDOM |-> loc.afterDOM, afterScreenshot |-> afterScreenshot,
   duration_ms |-> t - loc.startTime, success |-> loc.success,
   error |-> loc.error, timestamp |-> t]

\* lines 270-294: the after screenshot and everything after the last await
RecordFinish(c) ==
  /\ calls[c].op = "recordAction" /\ calls[c].pc = "afterShot"
  /\ LET trace == BuildTrace(calls[c].args, calls[c].loc,
                    CaptureScreenshot(currentSession, calls[c].loc.actionId, "after", now),
                    now)
     IN IF currentSession = NoSession
          THEN /\ ret' = [ret EXCEPT ![c] =
                    Threw("recordAction", TypeErrorNull, calls[c].loc.execThrew)]
               /\ UNCHANGED <<sessions, actionBuffer, rawLog>>
          ELSE /\ sessions' = [sessions EXCEPT ![currentSession].actions = PushAction(@, trace)]
               /\ actionBuffer' = Append(actionBuffer, trace)
               /\ rawLog' = AppendToFile(rawLog, AppendTrace(trace))
               /\ ret' = [ret EXCEPT ![c] =
                    Returned("recordAction",
                             [result |-> calls[c].loc.result, trace |-> trace],
                             calls[c].loc.execThrew)]
  /\ calls' = [calls EXCEPT ![c] = Idle]
  /\ UNCHANGED <<currentSession, tracesLog, sftLog, prefLog, page, now, nextId,
                 execOrder, closed, budget>>
  /\ UNCHANGED programs

\* -------------------------------------------------------------- endSession
\* lines 299-304, up to the await of captureDOMSnapshot
EndSessionBegin(c, args) ==
  /\ calls[c].op = "idle"
  /\ IF ~EndSessionPrecondition(currentSession)
       THEN /\ ret' = [ret EXCEPT ![c] = Threw("endSession", NoActiveSessionEnd, FALSE)]
            /\ UNCHANGED <<calls, sessions>>
       ELSE /\ sessions' = [sessions EXCEPT ![currentSession].success = args.success]
            /\ calls' = [calls EXCEPT ![c] =
                 [op |-> "endSession", pc |-> "finalDOM", args |-> args,
                  loc |-> [target |-> currentSession]]]
            /\ ret' = [ret EXCEPT ![c] = NoRet]
  /\ UNCHANGED <<collector, logs, page, now, nextId, execOrder, closed, budget>>
  /\ UNCHANGED programs

\* the session object as lines 304-307 leave it; `target` is the object the
\* assignment of line 304 resolved before it awaited
FinalizedSessions(c) ==
  LET withFinal == [sessions EXCEPT ![calls[c].loc.target].finalState =
                       {CaptureDOMSnapshot(page, now)}]
  IN [withFinal EXCEPT
        ![currentSession].totalDuration_ms = now - withFinal[currentSession].timestamp,
        ![currentSession].humanRating = calls[c].args.humanRating,
        ![currentSession].humanFeedback = calls[c].args.humanFeedback]

\* lines 304-321
EndSessionFinish(c) ==
  /\ calls[c].op = "endSession" /\ calls[c].pc = "finalDOM"
  /\ IF currentSession = NoSession
       THEN /\ sessions' = [sessions EXCEPT ![calls[c].loc.target].finalState =
                               {CaptureDOMSnapshot(page, now)}]
            /\ ret' = [ret EXCEPT ![c] = Threw("endSession", TypeErrorNull, FALSE)]
            /\ UNCHANGED <<currentSession, actionBuffer, tracesLog, sftLog, closed>>
       ELSE /\ sessions' = FinalizedSessions(c)
            /\ tracesLog' = AppendToFile(tracesLog, sessions'[currentSession])
            /\ sftLog' = sftLog \o GenerateSFTExamples(sessions'[currentSession])
            /\ currentSession' = SlotAfterEnd(currentSession)
            /\ actionBuffer' = <<>>
            /\ closed' = closed \cup {currentSession}
            /\ ret' = [ret EXCEPT ![c] = Returned("endSession", currentSession, FALSE)]
  /\ calls' = [calls EXCEPT ![c] = Idle]
  /\ UNCHANGED <<rawLog, prefLog, page, now, nextId, execOrder, budget>>
  /\ UNCHANGED programs

\* ------------------------------------------------------------------- clock
\* the awaits during which the clock is let advance: the browser running the
\* action, and the browser serving the final snapshot
TimedAwaits == {"execute", "finalDOM"}

Tick ==
  /\ \E c \in AllCallers : calls[c].pc \in TimedAwaits
  /\ budget < MaxEvents
  /\ now' = now + 1
  /\ budget' = budget + 1
  /\ UNCHANGED <<collector, sessions, logs, page, nextId, calls, ret, execOrder, closed>>
  /\ UNCHANGED programs

\* -------------------------------------------------------------------- Next
Next ==
  \/ \E c \in Slots, t \in Tasks, u \in StartUrls, m \in Models : StartSession(c, t, u, m)
  \/ \E c \in Slots, i \in ActionInputs : RecordActionBegin(c, i)
  \/ \E c \in Slots : RecordBeforeDOM(c)
  \/ \E c \in Slots : RecordBeforeShot(c)
  \/ \E c \in Slots, o \in ExecOutcomes : RecordExecute(c, o)
  \/ \E c \in Slots : RecordSettle(c)
  \/ \E c \in Slots : RecordAfterDOM(c)
  \/ \E c \in Slots : RecordFinish(c)
  \/ \E c \in Slots, a \in EndArgs : EndSessionBegin(c, a)
  \/ \E c \in Slots : EndSessionFinish(c)
  \/ Tick

Spec == Init /\ [][Next]_vars

\* ------------------------------------------------- callers that do not await
\* The collector holds no lock and no queue: a caller that does not await may
\* begin a recordAction while an earlier call is suspended at an await. Under
\* SpecConc the call chain "main" starts, records and ends as in Spec, and a
\* second chain, "other", issues recordAction calls without waiting for it.
\* How calls overlap depends on neither the timestamps nor the recorded data:
\* the clock is held still, every action is a click whose callback resolves,
\* and every session is closed as a success.
ConcInputs == { i \in ActionInputs : i.type = "click" }

ConcOutcomes == { o \in ExecOutcomes : o.kind = "value" }

ConcEndArgs == { a \in EndArgs : a.humanRating = {5} }

NextConc ==
  \/ \E c \in Slots, t \in Tasks, u \in StartUrls, m \in Models : StartSession(c, t, u, m)
  \/ \E c \in AllCallers, i \in ConcInputs : RecordActionBegin(c, i)
  \/ \E c \in AllCallers : RecordBeforeDOM(c)
  \/ \E c \in AllCallers : RecordBeforeShot(c)
  \/ \E c \in AllCallers, o \in ConcOutcomes : RecordExecute(c, o)
  \/ \E c \in AllCallers : RecordSettle(c)
  \/ \E c \in AllCallers : RecordAfterDOM(c)
  \/ \E c \in AllCallers : RecordFinish(c)
  \/ \E c \in Slots, a \in ConcEndArgs : EndSessionBegin(c, a)
  \/ \E c \in Slots : EndSessionFinish(c)

SpecConc == Init /\ [][NextConc]_vars

\* -------------------------------------------------------- storage failures
\* fs.appendFileSync can throw (disk full, permissions). endSession runs its
\* appends one after another with no try/catch, so a failing append leaves
\* the earlier ones in the files and propagates to the caller.
StorageError == "ENOSPC: no space left on device, write"

\* mutant: the failed append is caught and the call carries on to its end
AfterFailedAppendSwallowed(op) == Returned(op, <<>>, FALSE)
\* neither recordAction nor endSession has a try/catch around its appends:
\* what fs.appendFileSync throws leaves the method
AfterFailedAppend(op) == Threw(op, StorageError, FALSE)

\* mutant: the examples are synthesized before the session is persisted
EndSessionWritesExamplesFirst(session) ==
  [k \in 1..Len(session.actions) |->
     [file |-> "sft", line |-> GenerateSFTExamples(session)[k]]]
  \o <<[file |-> "traces", line |-> session]>>

\* the appends of lines 310-313 in the order endSession issues them: the
\* session to TRACES_FILE, then one example per action to SFT_FILE
EndSessionWrites(session) ==
  <<[file |-> "traces", line |-> session]>>
  \o [k \in 1..Len(session.actions) |->
        [file |-> "sft", line |-> GenerateSFTExamples(session)[k]]]

\* the lines the first n of these appends add to one file
LinesWritten(writes, n, file) ==
  LET done == SelectSeq(SubSeq(writes, 1, n), LAMBDA w : w.file = file)
  IN [k \in 1..Len(done) |-> done[k].line]

\* lines 304-313 when the append after the first n throws: the session object
\* is finalized, n lines are in the files, lines 317-319 are never reached
EndSessionWriteFails(c, n) ==
  /\ calls[c].op = "endSession" /\ calls[c].pc = "finalDOM"
  /\ currentSession # NoSession
  /\ budget < MaxEvents
  /\ n < Len(EndSessionWrites(FinalizedSessions(c)[currentSession]))
  /\ sessions' = FinalizedSessions(c)
  /\ LET writes == EndSessionWrites(sessions'[currentSession])
     IN /\ tracesLog' = tracesLog \o LinesWritten(writes, n, "traces")
        /\ sftLog' = sftLog \o LinesWritten(writes, n, "sft")
  /\ ret' = [ret EXCEPT ![c] = AfterFailedAppend("endSession")]
  /\ calls' = [calls EXCEPT ![c] = Idle]
  /\ budget' = budget + 1
  /\ UNCHANGED <<collector, rawLog, prefLog, page, now, nextId, execOrder, closed>>
  /\ UNCHANGED programs

\* what the callback does has no part in how the appends fail: under
\* SpecFaults it resolves or rejects with an Error
FaultOutcomes == { o \in ExecOutcomes : o.kind = "value" \/ o.message = {"boom"} }

\* lines 270-290 when the append to raw_actions.jsonl throws: the record is
\* already in the session and in the buffer (lines 286-287)
RecordAppendFails(c) ==
  /\ calls[c].op = "recordAction" /\ calls[c].pc = "afterShot"
  /\ currentSession # NoSession
  /\ budget < MaxEvents
  /\ LET trace == BuildTrace(calls[c].args, calls[c].loc,
                    CaptureScreenshot(currentSession, calls[c].loc.actionId, "after", now),
                    now)
     IN /\ sessions' = [sessions EXCEPT ![currentSession].actions = PushAction(@, trace)]
        /\ actionBuffer' = Append(actionBuffer, trace)
  /\ ret' = [ret EXCEPT ![c] = AfterFailedAppend("recordAction")]
  /\ calls' = [calls EXCEPT ![c] = Idle]
  /\ budget' = budget + 1
  /\ UNCHANGED <<currentSession, logs, page, now, nextId, execOrder, closed>>
  /\ UNCHANGED programs

SnapshotError == "page.evaluate: Target closed"

\* mutant: a snapshot that cannot be taken is left out and the call goes on
SnapshotFailsIgnored(c) ==
  /\ calls[c].op = "recordAction"
  /\ calls[c].pc \in {"beforeDOM", "afterDOM"}
  /\ budget < MaxEvents
  /\ calls' = [calls EXCEPT
       ![c].pc = IF calls[c].pc = "beforeDOM" THEN "beforeShot" ELSE "afterShot",
       ![c].loc = @ @@ (IF calls[c].pc = "beforeDOM"
                          THEN [beforeDOM |-> CaptureDOMSnapshot(StartPage, now)]
                          ELSE [afterDOM |-> CaptureDOMSnapshot(StartPage, now)])]
  /\ budget' = budget + 1
  /\ UNCHANGED <<collector, sessions, logs, page, now, nextId, ret, execOrder, closed>>
  /\ UNCHANGED programs

\* lines 251-252 and 269-270 when page.title(), page.evaluate() or
\* page.screenshot() rejects: the awaits are outside the try block of lines
\* 258-263, so the rejection leaves recordAction before line 286 is reached
SnapshotFails(c) ==
  /\ calls[c].op = "recordAction"
  /\ calls[c].pc \in {"beforeDOM", "beforeShot", "afterDOM", "afterShot"}
  /\ budget < MaxEvents
  /\ ret' = [ret EXCEPT ![c] =
       Threw("recordAction", SnapshotError, calls[c].pc \in {"afterDOM", "afterShot"}
                                              /\ calls[c].loc.execThrew)]
  /\ calls' = [calls EXCEPT ![c] = Idle]
  /\ budget' = budget + 1
  /\ UNCHANGED <<collector, sessions, logs, page, now, nextId, execOrder, closed>>
  /\ UNCHANGED programs

\* line 304 when the final captureDOMSnapshot rejects: endSession has no try
\* block, so the rejection leaves it with line 303 done and lines 305-321 not
EndSessionSnapshotFails(c) ==
  /\ calls[c].op = "endSession" /\ calls[c].pc = "finalDOM"
  /\ budget < MaxEvents
  /\ ret' = [ret EXCEPT ![c] = Threw("endSession", SnapshotError, FALSE)]
  /\ calls' = [calls EXCEPT ![c] = Idle]
  /\ budget' = budget + 1
  /\ UNCHANGED <<collector, sessions, logs, page, now, nextId, execOrder, closed>>
  /\ UNCHANGED programs

NextFaults ==
  \/ \E c \in Slots, t \in Tasks, u \in StartUrls, m \in Models : StartSession(c, t, u, m)
  \/ \E c \in Slots, i \in ActionInputs : RecordActionBegin(c, i)
  \/ \E c \in Slots : RecordBeforeDOM(c)
  \/ \E c \in Slots : RecordBeforeShot(c)
  \/ \E c \in Slots, o \in FaultOutcomes : RecordExecute(c, o)
  \/ \E c \in Slots : RecordSettle(c)
  \/ \E c \in Slots : RecordAfterDOM(c)
  \/ \E c \in Slots : RecordFinish(c)
  \/ \E c \in Slots, a \in EndArgs : EndSessionBegin(c, a)
  \/ \E c \in Slots : EndSessionFinish(c)
  \/ \E c \in Slots, n \in 0..MaxEvents : EndSessionWriteFails(c, n)
  \/ \E c \in Slots : RecordAppendFails(c)
  \/ \E c \in Slots : SnapshotFails(c)
  \/ \E c \in Slots : EndSessionSnapshotFails(c)
  \/ Tick

SpecFaults == Init /\ [][NextFaults]_vars

\* ---------------------------------------------------- createPreferencePair
\* '': the text with nothing in it. formatStateForTraining always writes its
\* "URL:" line and formatActionForTraining its "ACTION:" line, so neither
\* ever returns it.
EmptyString == <<>>

Reasons == {"fewer steps"}

\* mutant: the sessions are compared by action type
FirstDivergenceByType(better, worse) ==
  LET minLen == IF Len(better.actions) <= Len(worse.actions)
                  THEN Len(better.actions) ELSE Len(worse.actions)
      differ == { i \in 0..(minLen - 1) :
                    better.actions[i + 1].type # worse.actions[i + 1].type }
  IN IF differ = {} THEN -1
     ELSE CHOOSE i \in differ : \A j \in differ : i <= j

\* lines 426-429: the index at which the loop reaches its `break`, -1 when it
\* runs to minLen without entering the `if`
FirstDivergence(better, worse) ==
  LET minLen == IF Len(better.actions) <= Len(worse.actions)
                  THEN Len(better.actions) ELSE Len(worse.actions)
      differ == { i \in 0..(minLen - 1) :
                    better.actions[i + 1].instruction # worse.actions[i + 1].instruction }
  IN IF differ = {} THEN -1
     ELSE CHOOSE i \in differ : \A j \in differ : i <= j

\* mutant: the state before the divergence is read from the worse session
PreferencePairFromWorseState(pairId, better, worse, reason) ==
  LET i == FirstDivergence(better, worse)
  IN [id |-> <<"pref", pairId>>,
      instruction |-> better.task,
      input |-> IF i < 0 THEN EmptyString
                ELSE FormatStateForTraining(worse.actions[i + 1].beforeDOM,
                                            SubSeq(worse.actions, 1, i)),
      chosen |-> IF i < 0 THEN EmptyString
                 ELSE FormatActionForTraining(better.actions[i + 1]),
      rejected |-> IF i < 0 THEN EmptyString
                   ELSE FormatActionForTraining(worse.actions[i + 1]),
      metadata |-> [chosen_trace_id |-> better.id, rejected_trace_id |-> worse.id,
                    reason |-> reason]]

\* lines 413-439: the pair as it is when the loop has ended
PreferencePair(pairId, better, worse, reason) ==
  LET i == FirstDivergence(better, worse)
  IN [id |-> <<"pref", pairId>>,
      instruction |-> better.task,
      input |-> IF i < 0 THEN EmptyString
                ELSE FormatStateForTraining(better.actions[i + 1].beforeDOM,
                                            SubSeq(better.actions, 1, i)),
      chosen |-> IF i < 0 THEN EmptyString
                 ELSE FormatActionForTraining(better.actions[i + 1]),
      rejected |-> IF i < 0 THEN EmptyString
                   ELSE FormatActionForTraining(worse.actions[i + 1]),
      metadata |-> [chosen_trace_id |-> better.id, rejected_trace_id |-> worse.id,
                    reason |-> reason]]

\* mutant: a pair with nothing to compare is not written
WritePreferencePairIfUsable(file, pair) ==
  IF pair.input = EmptyString THEN file ELSE Append(file, pair)

\* line 442: fs.appendFileSync(PREFERENCE_FILE, JSON.stringify(pair) + '\n')
WritePreferencePair(file, pair) == Append(file, pair)

\* lines 407-445. A static method: it reads the two session values it is
\* given (here: sessions an endSession has returned) and no collector.
CreatePreferencePair(c, b, w, reason) ==
  /\ calls[c].op = "idle"
  /\ budget < MaxEvents
  /\ b \in closed /\ w \in closed
  /\ LET pair == PreferencePair(GenerateId(nextId), sessions[b], sessions[w], reason)
     IN /\ prefLog' = WritePreferencePair(prefLog, pair)
        /\ ret' = [ret EXCEPT ![c] = Returned("createPreferencePair", pair, FALSE)]
  /\ nextId' = nextId + 1
  /\ budget' = budget + 1
  /\ UNCHANGED <<collector, sessions, rawLog, tracesLog, sftLog, page, now, calls,
                 execOrder, closed>>
  /\ UNCHANGED programs

\* the sessions createPreferencePair is applied to: stored SessionTrace values
\* whose actions differ in type, instruction and the page they were taken on
PrefActions ==
  { BuildTrace([type |-> a.type, instruction |-> a.instruction],
               [actionId |-> 0, startTime |-> 0,
                beforeDOM |-> CaptureDOMSnapshot(a.url, 0),
                beforeScreenshot |-> [session |-> {}, action |-> 0,
                                      marker |-> "before", at |-> 0],
                afterDOM |-> CaptureDOMSnapshot(a.url, 0),
                success |-> TRUE, error |-> {}],
               [session |-> {}, action |-> 0, marker |-> "after", at |-> 0], 0) :
      a \in { [type |-> "click",    instruction |-> "Click on Pricing link", url |-> StartPage],
              [type |-> "navigate", instruction |-> "Click on Pricing link",
               url |-> "https://higgsfield.ai"],
              [type |-> "click",    instruction |-> "Navigate to https://higgsfield.ai",
               url |-> "https://higgsfield.ai"] } }

PrefActionSeqs == UNION { [1..n -> PrefActions] : n \in 0..MaxPrefLen }

StoredSession(sessionId, actions) ==
  [NewSession(sessionId, "extract pricing", "https://higgsfield.ai", "claude-sonnet", 0)
     EXCEPT !.actions = actions]

InitPref ==
  /\ \E bs, ws \in PrefActionSeqs :
        sessions = (1 :> StoredSession(1, bs)) @@ (2 :> StoredSession(2, ws))
  /\ closed = {1, 2}
  /\ nextId = 3
  /\ currentSession = NoSession
  /\ actionBuffer = <<>>
  /\ rawLog = <<>> /\ tracesLog = <<>> /\ sftLog = <<>> /\ prefLog = <<>>
  /\ page = StartPage
  /\ now = 0
  /\ calls = [c \in AllCallers |-> Idle]
  /\ ret = [c \in AllCallers |-> NoRet]
  /\ execOrder = <<>>
  /\ budget = 0
  /\ loop = NoLoop
  /\ demo = NoDemo
  /\ video = NoVideo
  /\ gen = NoGen

\* one comparison of the two stored sessions, in either role
NextPref ==
  \E c \in Slots, b \in {1, 2}, w \in {1, 2}, r \in Reasons :
     prefLog = <<>> /\ CreatePreferencePair(c, b, w, r)

SpecPref == InitPref /\ [][NextPref]_vars

\* ------------------------------------------- getStats, exportForHuggingFace
\* a log file is created by the first append to it
FileExists(file) == Len(file) > 0

\* readFileSync(file).trim().split('\n'): every line ends in '\n' and trim
\* drops the last one, so the pieces are the lines; ''.split('\n') is ['']
TrimSplit(file) == IF Len(file) = 0 THEN <<EmptyString>> ELSE file

\* filter(Boolean) keeps the pieces that are not ''
NonEmptyLines(pieces) == SelectSeq(pieces, LAMBDA l : DOMAIN l # {})

\* mutant: the text is split without being trimmed, and nothing is filtered
CountLinesUntrimmed(file) ==
  IF ~FileExists(file) THEN 0 ELSE Len(file \o <<EmptyString>>)

\* lines 450-453
CountLines(file) ==
  IF ~FileExists(file) THEN 0 ELSE Len(NonEmptyLines(TrimSplit(file)))

\* lines 449-460; the raw action log is not counted
GetStats(c) ==
  /\ calls[c].op = "idle"
  /\ ret' = [ret EXCEPT ![c] =
       Returned("getStats",
                [traces |-> CountLines(tracesLog),
                 sftExamples |-> CountLines(sftLog),
                 preferencePairs |-> CountLines(prefLog)],
                FALSE)]
  /\ UNCHANGED <<collector, sessions, logs, page, now, nextId, calls, execOrder,
                 closed, budget>>
  /\ UNCHANGED programs

NoSuchFile == "ENOENT: no such file or directory, open"

OutputDirs == {"./export"}

\* lines 464-475
AlpacaFormat(file) ==
  [k \in 1..Len(NonEmptyLines(TrimSplit(file))) |->
     [instruction |-> NonEmptyLines(TrimSplit(file))[k].instruction,
      input |-> NonEmptyLines(TrimSplit(file))[k].input,
      output |-> NonEmptyLines(TrimSplit(file))[k].output]]

\* lines 462-484: readFileSync of SFT_FILE comes first, with no existsSync
\* before it. No modelled operation reads train.json back, so what is written
\* is kept in the call's result only.
ExportForHuggingFace(c, outputDir) ==
  /\ calls[c].op = "idle"
  /\ ret' = [ret EXCEPT ![c] =
       IF ~FileExists(sftLog)
         THEN Threw("exportForHuggingFace", NoSuchFile, FALSE)
         ELSE Returned("exportForHuggingFace",
                       [file |-> <<outputDir, "train.json">>,
                        content |-> AlpacaFormat(sftLog)],
                       FALSE)]
  /\ UNCHANGED <<collector, sessions, logs, page, now, nextId, calls, execOrder,
                 closed, budget>>
  /\ UNCHANGED programs

\* the collector's operations together with the static ones; what the
\* callback does has no part in them: it resolves or rejects with an Error
StaticOutcomes == { o \in ExecOutcomes : o.kind = "value" \/ o.message = {"boom"} }

NextStatic ==
  \/ \E c \in Slots, t \in Tasks, u \in StartUrls, m \in Models : StartSession(c, t, u, m)
  \/ \E c \in Slots, i \in ActionInputs : RecordActionBegin(c, i)
  \/ \E c \in Slots : RecordBeforeDOM(c)
  \/ \E c \in Slots : RecordBeforeShot(c)
  \/ \E c \in Slots, o \in StaticOutcomes : RecordExecute(c, o)
  \/ \E c \in Slots : RecordSettle(c)
  \/ \E c \in Slots : RecordAfterDOM(c)
  \/ \E c \in Slots : RecordFinish(c)
  \/ \E c \in Slots, a \in EndArgs : EndSessionBegin(c, a)
  \/ \E c \in Slots : EndSessionFinish(c)
  \/ \E c \in Slots, b \in closed, w \in closed, r \in Reasons : CreatePreferencePair(c, b, w, r)
  \/ \E c \in Slots : GetStats(c)
  \/ \E c \in Slots, d \in OutputDirs : ExportForHuggingFace(c, d)
  \/ Tick

SpecStatic == Init /\ [][NextStatic]_vars

\* ------------------------------------------- the interactive-element capture
\* pages for captureDOMSnapshot: `count` matching elements in document order,
\* those at the 0-based positions in `hidden` with a zero-area bounding box
HiddenChoices == { {}, {0}, {0, 1}, {ElementLimit} }

MatchingElements(count, hidden) ==
  [k \in 1..count |->
     [selector |-> <<"button", k - 1>>, tag |-> "button", text |-> "Buy",
      width |-> IF (k - 1) \in hidden THEN 0 ELSE 80, height |-> 20]]

InitSnapshot ==
  /\ \E n \in 0..MaxPageElements, h \in HiddenChoices :
        calls = [c \in AllCallers |->
                   IF c \in Slots
                     THEN [op |-> "captureDOMSnapshot", pc |-> "elements",
                           args |-> MatchingElements(n, h), loc |-> <<>>]
                     ELSE Idle]
  /\ currentSession = NoSession
  /\ actionBuffer = <<>>
  /\ sessions = <<>>
  /\ rawLog = <<>> /\ tracesLog = <<>> /\ sftLog = <<>> /\ prefLog = <<>>
  /\ page = "https://higgsfield.ai"
  /\ now = 0
  /\ nextId = 1
  /\ ret = [c \in AllCallers |-> NoRet]
  /\ execOrder = <<>>
  /\ closed = {}
  /\ budget = 0
  /\ loop = NoLoop
  /\ demo = NoDemo
  /\ video = NoVideo
  /\ gen = NoGen

\* lines 180-214: the third page.evaluate of captureDOMSnapshot
SnapshotElements(c) ==
  /\ calls[c].op = "captureDOMSnapshot"
  /\ ret' = [ret EXCEPT ![c] =
       Returned("captureDOMSnapshot",
                [matching |-> calls[c].args,
                 interactiveElements |-> InteractiveElements(calls[c].args)],
                FALSE)]
  /\ calls' = [calls EXCEPT ![c] = Idle]
  /\ UNCHANGED <<collector, sessions, logs, page, now, nextId, execOrder, closed, budget>>
  /\ UNCHANGED programs

NextSnapshot == \E c \in Slots : SnapshotElements(c)

SpecSnapshot == InitSnapshot /\ [][NextSnapshot]_vars

\* ------------------------------------------------- the snapshot's size caps
\* A text is the sequence of its pieces, each piece a run of `len` characters
\* starting at offset `from` of a named source, so that cutting a text keeps
\* track of which characters of which source survive.
AttrCap   == 200     \* line 165: attr.value.length > 200, slice(0, 200)
MarkupCap == 50000   \* line 171: clone.outerHTML.slice(0, 50000)
TextCap   == 10000   \* line 176: document.body.innerText.slice(0, 10000)

Piece(src, from, len) == [src |-> src, from |-> from, len |-> len]
WholeText(src, len) == IF len = 0 THEN <<>> ELSE <<Piece(src, 0, len)>>

RECURSIVE TextLength(_)
TextLength(t) == IF t = <<>> THEN 0 ELSE Head(t).len + TextLength(Tail(t))

RECURSIVE SliceFromStart(_, _)
\* String.prototype.slice(0, n)
SliceFromStart(t, n) ==
  IF t = <<>> \/ n <= 0 THEN <<>>
  ELSE IF Head(t).len <= n
         THEN <<Head(t)>> \o SliceFromStart(Tail(t), n - Head(t).len)
         ELSE <<Piece(Head(t).src, Head(t).from, n)>>

\* mutant: the attribute value is written back whole
TruncateAttributeKeepAll(value) == value

\* lines 164-168: if (attr.value.length > 200)
\*                  el.setAttribute(attr.name, attr.value.slice(0, 200) + '...')
TruncateAttribute(value) ==
  IF TextLength(value) > AttrCap
    THEN SliceFromStart(value, AttrCap) \o WholeText("ellipsis", 3)
    ELSE value

\* lines 157-172, for a document whose serialization is one attribute value
\* followed by `rest` further characters
CleanedMarkup(attrLen, restLen) ==
  TruncateAttribute(WholeText("attribute", attrLen)) \o WholeText("markup", restLen)

CaptureHtml(attrLen, restLen) == SliceFromStart(CleanedMarkup(attrLen, restLen), MarkupCap)

\* lines 175-177
CaptureText(innerTextLen) == SliceFromStart(WholeText("innerText", innerTextLen), TextCap)

Around(cap) == { n \in (cap - MaxOverCap)..(cap + MaxOverCap) : n >= 0 }

InitCaps ==
  /\ \E a \in {0} \cup Around(AttrCap), m \in Around(MarkupCap - AttrCap),
        t \in Around(TextCap) :
        calls = [c \in AllCallers |->
                   IF c \in Slots
                     THEN [op |-> "captureDOMSnapshot", pc |-> "html",
                           args |-> [attrLen |-> a, restLen |-> m, innerTextLen |-> t],
                           loc |-> <<>>]
                     ELSE Idle]
  /\ currentSession = NoSession
  /\ actionBuffer = <<>>
  /\ sessions = <<>>
  /\ rawLog = <<>> /\ tracesLog = <<>> /\ sftLog = <<>> /\ prefLog = <<>>
  /\ page = "https://higgsfield.ai"
  /\ now = 0
  /\ nextId = 1
  /\ ret = [c \in AllCallers |-> NoRet]
  /\ execOrder = <<>>
  /\ closed = {}
  /\ budget = 0
  /\ loop = NoLoop
  /\ demo = NoDemo
  /\ video = NoVideo
  /\ gen = NoGen

\* lines 156-177: the first two page.evaluate calls of captureDOMSnapshot
SnapshotMarkup(c) ==
  /\ calls[c].op = "captureDOMSnapshot" /\ calls[c].pc = "html"
  /\ ret' = [ret EXCEPT ![c] =
       Returned("captureDOMSnapshot.html",
                [page |-> calls[c].args,
                 html |-> CaptureHtml(calls[c].args.attrLen, calls[c].args.restLen),
                 text |-> CaptureText(calls[c].args.innerTextLen)],
                FALSE)]
  /\ calls' = [calls EXCEPT ![c] = Idle]
  /\ UNCHANGED <<collector, sessions, logs, page, now, nextId, execOrder, closed, budget>>
  /\ UNCHANGED programs

NextCaps == \E c \in Slots : SnapshotMarkup(c)

SpecCaps == InitCaps /\ [][NextCaps]_vars

\* ------------------------------------------------------ the rating argument
\* endSession's humanRating parameter is declared `number`: besides what the
\* callers of this repository pass, any number can arrive. Under SpecRatings
\* sessions are started and ended with ratings around the documented range;
\* what is recorded in between has no part in how the rating is stored.
RatingArgs ==
  { [success |-> TRUE, humanRating |-> r, humanFeedback |-> {}] :
      r \in { {}, {0}, {1}, {5}, {6} } }

NextRatings ==
  \/ \E c \in Slots, t \in Tasks, u \in StartUrls, m \in Models : StartSession(c, t, u, m)
  \/ \E c \in Slots, a \in RatingArgs : EndSessionBegin(c, a)
  \/ \E c \in Slots : EndSessionFinish(c)

SpecRatings == Init /\ [][NextRatings]_vars

\* ------------------------------------------------------ generateSFTExamples
\* generateSFTExamples(session) applied to stored sessions long enough for
\* the window of previous actions to fill up and move
SessionActionSeqs == UNION { [1..n -> PrefActions] : n \in 0..MaxSessionLen }

InitSFT ==
  /\ \E acts \in SessionActionSeqs :
        calls = [c \in AllCallers |->
                   IF c \in Slots
                     THEN [op |-> "generateSFTExamples", pc |-> "loop",
                           args |-> StoredSession(1, acts), loc |-> <<>>]
                     ELSE Idle]
  /\ currentSession = NoSession
  /\ actionBuffer = <<>>
  /\ sessions = <<>>
  /\ rawLog = <<>> /\ tracesLog = <<>> /\ sftLog = <<>> /\ prefLog = <<>>
  /\ page = StartPage
  /\ now = 0
  /\ nextId = 2
  /\ ret = [c \in AllCallers |-> NoRet]
  /\ execOrder = <<>>
  /\ closed = {}
  /\ budget = 0
  /\ loop = NoLoop
  /\ demo = NoDemo
  /\ video = NoVideo
  /\ gen = NoGen

\* lines 340-359
SynthesizeExamples(c) ==
  /\ calls[c].op = "generateSFTExamples"
  /\ sftLog' = sftLog \o GenerateSFTExamples(calls[c].args)
  /\ ret' = [ret EXCEPT ![c] = Returned("generateSFTExamples", calls[c].args, FALSE)]
  /\ calls' = [calls EXCEPT ![c] = Idle]
  /\ UNCHANGED <<collector, sessions, rawLog, tracesLog, prefLog, page, now, nextId,
                 execOrder, closed, budget>>
  /\ UNCHANGED programs

NextSFT == \E c \in Slots : SynthesizeExamples(c)

SpecSFT == InitSFT /\ [][NextSFT]_vars

\* ============================================================ ralph-cc.sh
\* Money is counted in units of 0.0001 dollar, the four decimals that
\* estimate_iteration_cost (scale=4) and get_total_cost (%.4f) keep.
\* MAX_COST=${MAX_COST:-1.00}
MAX_COST == 10000
\* EST_INPUT_TOKENS=2000
EST_INPUT_TOKENS == 2000
\* INPUT_COST["sonnet"]=3.00, OUTPUT_COST["sonnet"]=15.00: cents per 1M tokens
INPUT_COST == 300
OUTPUT_COST == 1500
\* [ "$output_size" -lt 100 ]
UsefulOutputSize == 100

\* MAX_ITERATIONS=${1:-10}: the values of $1 a run is started with
IterationLimits == {0, MaxIterations}
\* MAX_CONSECUTIVE_FAILURES=${MAX_FAIL:-2}: the values of MAX_FAIL
FailureLimits == {0, 1, 2}

\* costs.jsonl as earlier runs left it (the file is never reset): absent or
\* empty, partly spent, spent to the cent, overspent
EarlierCosts == {0, MAX_COST - 4560, MAX_COST, MAX_COST + 62}
EarlierCostLog(spent) ==
  IF spent = 0 THEN <<>>
  ELSE << [iteration |-> 1, cost |-> spent, status |-> "unclear"] >>

\* what one run of the AI process leaves behind: the size in bytes of the
\* iteration log, whether it holds <promise>COMPLETE</promise> (27 bytes),
\* whether it holds <promise>ERROR</promise> (24 bytes), whether prd.json's
\* hash differs from PRD_HASH
OutputSizes == {0, UsefulOutputSize - 1, UsefulOutputSize, 120000}
IterationOutputs ==
  { o \in [size : OutputSizes, complete : BOOLEAN, error : BOOLEAN,
           prdChanged : BOOLEAN] :
      o.size >= (IF o.complete THEN 27 ELSE 0) + (IF o.error THEN 24 ELSE 0) }
NoOutput == [size |-> 0, complete |-> FALSE, error |-> FALSE, prdChanged |-> FALSE]

\* echo "scale=4; (in * in_cost / 1000000) + (out * out_cost / 1000000)" | bc
\* (bc cuts each quotient to four decimals)
EstimateIterationCost(inputTokens, outputTokens) ==
  (inputTokens * INPUT_COST) \div 10000 + (outputTokens * OUTPUT_COST) \div 10000

\* awk -F'"cost":' '{sum += $2} END {printf "%.4f", sum}', "0" without a file
RECURSIVE GetTotalCost(_)
GetTotalCost(costLog) ==
  IF costLog = <<>> THEN 0
  ELSE Head(costLog).cost + GetTotalCost(Tail(costLog))

\* echo "{... \"cost\": $cost, ... \"status\": \"$status\" ...}" >> "$COST_LOG"
LogCost(costLog, iteration, cost, status) ==
  Append(costLog, [iteration |-> iteration, cost |-> cost, status |-> status])

\* check_iteration_quality
CheckIterationQualityErrorFirst(output) ==
  IF output.error THEN "error"
  ELSE IF output.prdChanged THEN "productive"
  ELSE IF output.size < UsefulOutputSize THEN "empty"
  ELSE "unclear"
CheckIterationQuality(output) ==
  IF output.prdChanged THEN "productive"
  ELSE IF output.error THEN "error"
  ELSE IF output.size < UsefulOutputSize THEN "empty"
  ELSE "unclear"

\* (( $(echo "$TOTAL_COST >= $MAX_COST" | bc -l) ))
CostLimitExceeded(totalCost, maxCost) == totalCost > maxCost
CostLimitReached(totalCost, maxCost) == totalCost >= maxCost

\* for i in $(seq 1 $MAX_ITERATIONS)
HasIterationOneMore(i, maxIterations) == i <= maxIterations + 1
HasIteration(i, maxIterations) == i <= maxIterations

\* case $QUALITY in "productive") CONSECUTIVE_FAILURES=0 ;;
\*   "error" | "empty"|"unclear") CONSECUTIVE_FAILURES=$((.. + 1)) ;; esac
FailuresAfterNoReset(failures, quality) ==
  IF quality = "productive" THEN failures ELSE failures + 1
FailuresAfter(failures, quality) ==
  IF quality = "productive" THEN 0 ELSE failures + 1

\* lines 177-212: the completion check, then the case, then the failure gate
VerdictFailuresFirst(output, failures, maxFailures) ==
  IF failures >= maxFailures THEN "abort"
  ELSE IF output.complete THEN "complete"
  ELSE "continue"
Verdict(output, failures, maxFailures) ==
  IF output.complete THEN "complete"
  ELSE IF failures >= maxFailures THEN "abort"
  ELSE "continue"

\* the collector is not part of a ralph-cc.sh run
InitLoop ==
  /\ currentSession = NoSession
  /\ actionBuffer = <<>>
  /\ sessions = <<>>
  /\ rawLog = <<>>
  /\ tracesLog = <<>>
  /\ sftLog = <<>>
  /\ prefLog = <<>>
  /\ page = StartPage
  /\ now = 0
  /\ nextId = 1
  /\ calls = [c \in AllCallers |-> Idle]
  /\ ret = [c \in AllCallers |-> NoRet]
  /\ execOrder = <<>>
  /\ closed = {}
  /\ budget = 0
  /\ demo = NoDemo
  /\ video = NoVideo
  /\ gen = NoGen
  /\ \E n \in IterationLimits, f \in FailureLimits, spent \in EarlierCosts :
       loop = [ pc |-> "start",
                MAX_ITERATIONS |-> n,
                MAX_CONSECUTIVE_FAILURES |-> f,
                i |-> 1,
                CONSECUTIVE_FAILURES |-> 0,
                costLog |-> EarlierCostLog(spent),
                earlier |-> Len(EarlierCostLog(spent)),
                output |-> NoOutput,
                ITER_COST |-> 0,
                QUALITY |-> "",
                spawned |-> 0,
                exit |-> {} ]

notLoop == <<currentSession, actionBuffer, sessions, rawLog, tracesLog, sftLog,
             prefLog, page, now, nextId, calls, ret, execOrder, closed, budget,
             demo, video, gen>>

\* lines 125-131: the budget is spent, exit 2
LoopCostStop ==
  /\ loop.pc = "start"
  /\ HasIteration(loop.i, loop.MAX_ITERATIONS)
  /\ CostLimitReached(GetTotalCost(loop.costLog), MAX_COST)
  /\ loop' = [loop EXCEPT !.pc = "exited", !.exit = {2}]
  /\ UNCHANGED notLoop

\* lines 120-152: the next iteration starts and spawns the AI process
LoopSpawn ==
  /\ loop.pc = "start"
  /\ HasIteration(loop.i, loop.MAX_ITERATIONS)
  /\ ~CostLimitReached(GetTotalCost(loop.costLog), MAX_COST)
  /\ loop' = [loop EXCEPT !.pc = "running", !.spawned = @ + 1]
  /\ UNCHANGED notLoop

\* line 152: the AI process ends, or timeout ends it; its output is in the
\* iteration log
IterationEnds(output) ==
  /\ loop.pc = "running"
  /\ loop' = [loop EXCEPT !.pc = "ended", !.output = output]
  /\ UNCHANGED notLoop

\* lines 154-169: estimate the cost, classify the iteration, log the cost
LogIteration ==
  /\ loop.pc = "ended"
  /\ LET cost == EstimateIterationCost(EST_INPUT_TOKENS, loop.output.size \div 4)
         quality == CheckIterationQuality(loop.output)
     IN  loop' = [loop EXCEPT !.pc = "logged",
                              !.ITER_COST = cost,
                              !.QUALITY = quality,
                              !.costLog = LogCost(@, loop.i, cost, quality)]
  /\ UNCHANGED notLoop

\* lines 177-216: exit 0 on COMPLETE, else count the failure, exit 3 at the
\* limit, else sleep and go on
LoopDecide ==
  /\ loop.pc = "logged"
  /\ LET failures == FailuresAfter(loop.CONSECUTIVE_FAILURES, loop.QUALITY)
         verdict == Verdict(loop.output, failures, loop.MAX_CONSECUTIVE_FAILURES)
     IN  loop' =
           IF verdict = "complete"
             THEN [loop EXCEPT !.pc = "exited", !.exit = {0}]
           ELSE IF verdict = "abort"
             THEN [loop EXCEPT !.pc = "exited", !.exit = {3},
                               !.CONSECUTIVE_FAILURES = failures]
           ELSE [loop EXCEPT !.pc = "start", !.i = @ + 1,
                             !.CONSECUTIVE_FAILURES = failures]
  /\ UNCHANGED notLoop

\* lines 219-226: the for loop ran out, exit 1
LoopMaxIterations ==
  /\ loop.pc = "start"
  /\ ~HasIteration(loop.i, loop.MAX_ITERATIONS)
  /\ loop' = [loop EXCEPT !.pc = "exited", !.exit = {1}]
  /\ UNCHANGED notLoop

NextLoop ==
  \/ LoopCostStop
  \/ LoopSpawn
  \/ \E output \in IterationOutputs : IterationEnds(output)
  \/ LogIteration
  \/ LoopDecide
  \/ LoopMaxIterations

SpecLoop == InitLoop /\ [][NextLoop]_vars

\* the script runs its lines one after another, and timeout ends an AI
\* process that does not end by itself
SpecLoopFair == SpecLoop /\ WF_vars(NextLoop)

\* ====================================================== demo-ralph-loop.ts
\* setup(): prd.json with the stories US-001, US-002, US-003, none passing
SetupStories ==
  << [id |-> "US-001", passes |-> FALSE],
     [id |-> "US-002", passes |-> FALSE],
     [id |-> "US-003", passes |-> FALSE] >>

\* the values of maxIterations ralphLoop is called with
DemoIterationLimits == 0..MaxDemoIterations

\* prd.userStories.find(s => !s.passes): the index of the story, 0 for none
NextTaskLast(userStories) ==
  IF \A k \in DOMAIN userStories : userStories[k].passes THEN 0
  ELSE CHOOSE k \in DOMAIN userStories :
         /\ ~userStories[k].passes
         /\ \A j \in DOMAIN userStories : ~userStories[j].passes => j <= k
NextTask(userStories) ==
  IF \A k \in DOMAIN userStories : userStories[k].passes THEN 0
  ELSE CHOOSE k \in DOMAIN userStories :
         /\ ~userStories[k].passes
         /\ \A j \in DOMAIN userStories : ~userStories[j].passes => k <= j

\* ralphLoop(maxIterations) after setup(), before the first pass of the loop
InitDemo ==
  /\ currentSession = NoSession
  /\ actionBuffer = <<>>
  /\ sessions = <<>>
  /\ rawLog = <<>>
  /\ tracesLog = <<>>
  /\ sftLog = <<>>
  /\ prefLog = <<>>
  /\ page = StartPage
  /\ now = 0
  /\ nextId = 1
  /\ calls = [c \in AllCallers |-> Idle]
  /\ ret = [c \in AllCallers |-> NoRet]
  /\ execOrder = <<>>
  /\ closed = {}
  /\ budget = 0
  /\ loop = NoLoop
  /\ video = NoVideo
  /\ gen = NoGen
  /\ \E m \in DemoIterationLimits :
       demo = [ pc |-> "loop",
                maxIterations |-> m,
                i |-> 1,
                userStories |-> SetupStories,
                nextTask |-> 0,
                actions |-> <<>>,
                progress |-> 0,
                iterations |-> <<>>,
                outcome |-> "" ]

notDemo == <<currentSession, actionBuffer, sessions, rawLog, tracesLog, sftLog,
             prefLog, page, now, nextId, calls, ret, execOrder, closed, budget,
             loop, video, gen>>

\* lines 192-199, 76-90: the loop calls simulateIteration(i), which reads
\* prd.json and finds an incomplete story
DemoFindTask ==
  /\ demo.pc = "loop"
  /\ demo.i <= demo.maxIterations
  /\ NextTask(demo.userStories) # 0
  /\ demo' = [demo EXCEPT !.pc = "found", !.nextTask = NextTask(demo.userStories)]
  /\ UNCHANGED notDemo

\* lines 131-143: the line of actions.jsonl
DemoLogAction ==
  /\ demo.pc = "found"
  /\ demo' = [demo EXCEPT
       !.pc = "logged",
       !.actions = Append(@, [iteration |-> demo.i,
                              task_id |-> demo.userStories[demo.nextTask].id])]
  /\ UNCHANGED notDemo

\* lines 147-148: nextTask.passes = true, prd.json written back
DemoUpdatePrd ==
  /\ demo.pc = "logged"
  /\ demo' = [demo EXCEPT !.pc = "updated",
                          !.userStories[demo.nextTask].passes = TRUE]
  /\ UNCHANGED notDemo

\* lines 153-161: the learnings appended to progress.txt
DemoAppendProgress ==
  /\ demo.pc = "updated"
  /\ demo' = [demo EXCEPT !.pc = "learned", !.progress = @ + 1]
  /\ UNCHANGED notDemo

\* lines 165-180, 202, 192: the line of iterations.jsonl; simulateIteration
\* returns { complete: false }, and the loop goes on with i + 1
DemoIterationEnds ==
  /\ demo.pc = "learned"
  /\ demo' = [demo EXCEPT
       !.pc = "loop",
       !.i = @ + 1,
       !.nextTask = 0,
       !.iterations = Append(@, [iteration |-> demo.i,
                                 task_completed |-> demo.userStories[demo.nextTask].id])]
  /\ UNCHANGED notDemo

\* lines 84-88, 202-219: no incomplete story; simulateIteration returns
\* { complete: true } and ralphLoop reports completion and returns
DemoComplete ==
  /\ demo.pc = "loop"
  /\ demo.i <= demo.maxIterations
  /\ NextTask(demo.userStories) = 0
  /\ demo' = [demo EXCEPT !.pc = "done", !.outcome = "complete"]
  /\ UNCHANGED notDemo

\* line 223: the for loop ran out
DemoMaxReached ==
  /\ demo.pc = "loop"
  /\ ~(demo.i <= demo.maxIterations)
  /\ demo' = [demo EXCEPT !.pc = "done", !.outcome = "maxReached"]
  /\ UNCHANGED notDemo

NextDemo ==
  \/ DemoFindTask
  \/ DemoLogAction
  \/ DemoUpdatePrd
  \/ DemoAppendProgress
  \/ DemoIterationEnds
  \/ DemoComplete
  \/ DemoMaxReached

SpecDemo == InitDemo /\ [][NextDemo]_vars

\* ======================================================= video-generator.ts
\* const maxAttempts = 6
maxAttempts == 6
\* VideoStatusSchema: z.enum(['pending', 'processing', 'completed', 'failed'])
VideoStatuses == {"pending", "processing", "completed", "failed"}
\* how lines 52-106 end: the generation was started, the page asks for a
\* login, or a call of the browser agent threw
StartOutcomes == {"started", "loginRequired", "threw"}

\* the VideoResult generateVideo returns
VideoResult(status) == [status |-> status]

\* while (attempts < maxAttempts)
KeepsPollingOneMore(attempts) == attempts <= maxAttempts
KeepsPolling(attempts) == attempts < maxAttempts

InitVideo ==
  /\ currentSession = NoSession
  /\ actionBuffer = <<>>
  /\ sessions = <<>>
  /\ rawLog = <<>>
  /\ tracesLog = <<>>
  /\ sftLog = <<>>
  /\ prefLog = <<>>
  /\ page = StartPage
  /\ now = 0
  /\ nextId = 1
  /\ calls = [c \in AllCallers |-> Idle]
  /\ ret = [c \in AllCallers |-> NoRet]
  /\ execOrder = <<>>
  /\ closed = {}
  /\ budget = 0
  /\ loop = NoLoop
  /\ demo = NoDemo
  /\ gen = NoGen
  /\ video = [ pc |-> "begin",
               started |-> FALSE,
               attempts |-> 0,
               polls |-> <<>>,
               threw |-> FALSE,
               result |-> {} ]

notVideo == <<currentSession, actionBuffer, sessions, rawLog, tracesLog, sftLog,
              prefLog, page, now, nextId, calls, ret, execOrder, closed, budget,
              loop, demo, gen>>

\* lines 52-119: up to the click on the generate button
VideoStart(outcome) ==
  /\ video.pc = "begin"
  /\ video' =
       IF outcome = "started"
         THEN [video EXCEPT !.pc = "polling", !.started = TRUE]
       ELSE [video EXCEPT !.pc = "returned",
                          !.threw = (outcome = "threw"),
                          !.result = {VideoResult("failed")}]
  /\ UNCHANGED notVideo

\* lines 121-156: one pass of the polling loop, the extract reporting status
VideoPoll(status) ==
  /\ video.pc = "polling"
  /\ KeepsPolling(video.attempts)
  /\ video' =
       IF status = "completed" \/ status = "failed"
         THEN [video EXCEPT !.pc = "returned",
                            !.attempts = @ + 1,
                            !.polls = Append(@, status),
                            !.result = {VideoResult(status)}]
       ELSE [video EXCEPT !.attempts = @ + 1, !.polls = Append(@, status)]
  /\ UNCHANGED notVideo

\* lines 125-130, 167-177: the extract or the screenshot of a pass throws,
\* the catch block returns a failed result
VideoPollThrows ==
  /\ video.pc = "polling"
  /\ KeepsPolling(video.attempts)
  /\ video' = [video EXCEPT !.pc = "returned",
                            !.attempts = @ + 1,
                            !.threw = TRUE,
                            !.result = {VideoResult("failed")}]
  /\ UNCHANGED notVideo

\* lines 158-165: the loop ran out, still processing
VideoTimeout ==
  /\ video.pc = "polling"
  /\ ~KeepsPolling(video.attempts)
  /\ video' = [video EXCEPT !.pc = "returned",
                            !.result = {VideoResult("processing")}]
  /\ UNCHANGED notVideo

NextVideo ==
  \/ \E outcome \in StartOutcomes : VideoStart(outcome)
  \/ \E status \in VideoStatuses : VideoPoll(status)
  \/ VideoPollThrows
  \/ VideoTimeout

SpecVideo == InitVideo /\ [][NextVideo]_vars

\* =================================================== generate-training-data.ts
\* the steps of a task, by the TracedAgent call the generator picks for them
\* (lines 114-122): act records a 'click', observe an 'observe'
TrainingTaskA ==
  [ id |-> "signup-flow", description |-> "extract pricing",
    startUrl |-> "https://higgsfield.ai",
    steps |-> << [type |-> "click", instruction |-> "Find and click Sign Up"],
                 [type |-> "observe", instruction |-> "Observe the signup form fields"] >> ]
TrainingTaskB ==
  [ id |-> "feature-exploration", description |-> "extract pricing",
    startUrl |-> "https://higgsfield.ai",
    steps |-> << [type |-> "click", instruction |-> "Find the main features section"] >> ]
\* the arguments generateTrainingData(tasks, runsPerTask) is called with
TaskLists == { <<TrainingTaskA>>, <<TrainingTaskB, TrainingTaskA>> }
RunsPerTaskChoices == {1, 2}

\* what a traced call of the agent can do in a run: the wrapped browser call
\* resolves, or rejects with an Error
StepOutcomes == { o \in ExecOutcomes : o.kind = "value" \/ o.message = {"boom"} }
\* how agent.init's `await this.stagehand.init()` ends
StagehandInits == {"ready", "threw"}

\* TraceCollector.recordAction as one awaited call (lines 243-294): the trace
\* it builds around the callback's outcome
TraceOf(input, outcome) ==
  LET actionId == GenerateId(nextId)
      after == now + SettleDelay
  IN  BuildTrace(input,
        [ actionId |-> actionId, startTime |-> now,
          beforeDOM |-> CaptureDOMSnapshot(page, now),
          beforeScreenshot |-> CaptureScreenshot(currentSession, actionId, "before", now),
          afterDOM |-> CaptureDOMSnapshot(PageAfter(page, input.type, outcome), after),
          success |-> outcome.ok, error |-> outcome.message ],
        CaptureScreenshot(currentSession, actionId, "after", after),
        after)

\* TraceCollector.endSession as one awaited call (lines 303-307): the session
\* object it writes
EndedSession(session, args) ==
  [session EXCEPT !.success = args.success,
                  !.finalState = {CaptureDOMSnapshot(page, now)},
                  !.totalDuration_ms = now - session.timestamp,
                  !.humanRating = args.humanRating,
                  !.humanFeedback = args.humanFeedback]

\* await agent.endSession(true, 5, 'Completed all steps successfully')
RunSucceededArgs ==
  [success |-> TRUE, humanRating |-> {5},
   humanFeedback |-> {"Completed all steps successfully"}]
\* await agent.endSession(false, 1, `Failed: ${message}`)
RunFailedArgs ==
  [success |-> FALSE, humanRating |-> {1}, humanFeedback |-> {"Failed"}]

InitGen ==
  /\ currentSession = NoSession
  /\ actionBuffer = <<>>
  /\ sessions = <<>>
  /\ rawLog = <<>>
  /\ tracesLog = <<>>
  /\ sftLog = <<>>
  /\ prefLog = <<>>
  /\ page = StartPage
  /\ now = 0
  /\ nextId = 1
  /\ calls = [c \in AllCallers |-> Idle]
  /\ ret = [c \in AllCallers |-> NoRet]
  /\ execOrder = <<>>
  /\ closed = {}
  /\ budget = 0
  /\ loop = NoLoop
  /\ demo = NoDemo
  /\ video = NoVideo
  /\ \E tasks \in TaskLists, runsPerTask \in RunsPerTaskChoices :
       gen = [ pc |-> "run",
               tasks |-> tasks,
               runsPerTask |-> runsPerTask,
               task |-> 1,
               run |-> 1,
               step |-> 0,
               successCount |-> 0,
               failCount |-> 0,
               attempted |-> 0,
               ending |-> <<>>,
               outcome |-> "" ]

\* the task of the run in progress
GenTask == gen.tasks[gen.task]

\* the awaited recordAction call of a traced agent method, as a whole
GenRecordAction(input, outcome) ==
  LET trace == TraceOf(input, outcome) IN
    /\ sessions' = [sessions EXCEPT ![currentSession].actions = PushAction(@, trace)]
    /\ actionBuffer' = Append(actionBuffer, trace)
    /\ rawLog' = AppendToFile(rawLog, AppendTrace(trace))
    /\ execOrder' = Append(execOrder, trace.id)
    /\ page' = PageAfter(page, input.type, outcome)
    /\ now' = now + SettleDelay
    /\ nextId' = nextId + 1

\* the awaited endSession call of the agent, as a whole (lines 303-321)
GenEndSession(args) ==
  LET session == EndedSession(sessions[currentSession], args) IN
    /\ sessions' = [sessions EXCEPT ![currentSession] = session]
    /\ tracesLog' = AppendToFile(tracesLog, session)
    /\ sftLog' = sftLog \o GenerateSFTExamples(session)
    /\ currentSession' = SlotAfterEnd(currentSession)
    /\ actionBuffer' = <<>>
    /\ closed' = closed \cup {currentSession}

\* lines 105-108, traced-agent.ts 17-41: a new agent with a new collector;
\* init starts Stagehand, starts the session and navigates to the start URL
GenInit(stagehand, outcome) ==
  /\ gen.pc = "run"
  /\ IF stagehand = "threw"
       THEN /\ currentSession' = NoSession
            /\ actionBuffer' = <<>>
            /\ gen' = [gen EXCEPT !.pc = "catch", !.attempted = @ + 1]
            /\ UNCHANGED <<sessions, rawLog, execOrder, page, now, nextId>>
       ELSE LET sessionId == GenerateId(nextId)
                input == [type |-> "navigate",
                          instruction |-> "Navigate to https://higgsfield.ai"]
                started == (sessionId :> NewSession(sessionId, GenTask.description,
                                           GenTask.startUrl, "claude-sonnet", now))
                             @@ sessions
                id == GenerateId(nextId + 1)
                after == now + SettleDelay
                trace == BuildTrace(input,
                  [ actionId |-> id, startTime |-> now,
                    beforeDOM |-> CaptureDOMSnapshot(page, now),
                    beforeScreenshot |-> [session |-> {sessionId}, action |-> id,
                                          marker |-> "before", at |-> now],
                    afterDOM |-> CaptureDOMSnapshot(PageAfter(page, "navigate", outcome), after),
                    success |-> outcome.ok, error |-> outcome.message ],
                  [session |-> {sessionId}, action |-> id, marker |-> "after", at |-> after],
                  after)
            IN  /\ currentSession' = sessionId
                /\ sessions' = [started EXCEPT ![sessionId].actions = PushAction(@, trace)]
                /\ actionBuffer' = <<trace>>
                /\ rawLog' = AppendToFile(rawLog, AppendTrace(trace))
                /\ execOrder' = Append(execOrder, id)
                /\ page' = PageAfter(page, "navigate", outcome)
                /\ now' = after
                /\ nextId' = nextId + 2
                /\ gen' = [gen EXCEPT !.pc = "steps", !.step = 1, !.attempted = @ + 1]
  /\ UNCHANGED <<tracesLog, sftLog, prefLog, calls, ret, closed, budget,
                 loop, demo, video>>

\* lines 111-126: one step of the task through agent.act / observe; the
\* callback's failure stays inside recordAction (trace-collector.ts 258-263)
GenStep(outcome) ==
  /\ gen.pc = "steps"
  /\ gen.step <= Len(GenTask.steps)
  /\ GenRecordAction(GenTask.steps[gen.step], outcome)
  /\ gen' = [gen EXCEPT !.step = @ + 1]
  /\ UNCHANGED <<currentSession, tracesLog, sftLog, prefLog, calls, ret, closed,
                 budget, loop, demo, video>>

\* a snapshot of the step's recordAction throws (trace-collector.ts 251,
\* 269): nothing is recorded, act / observe rejects, line 133 catches
GenStepThrows ==
  /\ gen.pc = "steps"
  /\ gen.step <= Len(GenTask.steps)
  /\ gen' = [gen EXCEPT !.pc = "catch"]
  /\ UNCHANGED <<currentSession, actionBuffer, sessions, rawLog, tracesLog, sftLog,
                 prefLog, page, now, nextId, calls, ret, execOrder, closed, budget,
                 loop, demo, video>>

\* lines 129-131: every step returned; endSession(true, 5, ..), successCount++
GenRunSucceeded ==
  /\ gen.pc = "steps"
  /\ gen.step > Len(GenTask.steps)
  /\ GenEndSession(RunSucceededArgs)
  /\ gen' = [gen EXCEPT !.pc = "finally", !.successCount = @ + 1,
                        !.ending = Append(@, currentSession)]
  /\ UNCHANGED <<rawLog, prefLog, page, now, nextId, calls, ret, execOrder, budget,
                 loop, demo, video>>

\* lines 133-136: the catch block; endSession(false, 1, ..), failCount++.
\* Without an open session endSession throws (trace-collector.ts 299-301),
\* the finally block closes the agent and generateTrainingData rejects
GenRunFailed ==
  /\ gen.pc = "catch"
  /\ IF currentSession = NoSession
       THEN /\ gen' = [gen EXCEPT !.pc = "rejected", !.outcome = NoActiveSessionEnd]
            /\ UNCHANGED <<collector, sessions, tracesLog, sftLog, closed>>
       ELSE /\ GenEndSession(RunFailedArgs)
            /\ gen' = [gen EXCEPT !.pc = "finally", !.failCount = @ + 1,
                                  !.ending = Append(@, currentSession)]
  /\ UNCHANGED <<rawLog, prefLog, page, now, nextId, calls, ret, execOrder, budget,
                 loop, demo, video>>

\* lines 137-147, 102, 96: agent.close(), then the next run, the next task,
\* or the final stats
GenNextRun ==
  /\ gen.pc = "finally"
  /\ gen' =
       IF gen.run < gen.runsPerTask
         THEN [gen EXCEPT !.pc = "run", !.run = @ + 1, !.step = 0]
       ELSE IF gen.task < Len(gen.tasks)
         THEN [gen EXCEPT !.pc = "run", !.task = @ + 1, !.run = 1, !.step = 0]
       ELSE [gen EXCEPT !.pc = "finished", !.outcome = "GENERATION COMPLETE"]
  /\ UNCHANGED <<currentSession, actionBuffer, sessions, rawLog, tracesLog, sftLog,
                 prefLog, page, now, nextId, calls, ret, execOrder, closed, budget,
                 loop, demo, video>>

NextGen ==
  \/ \E stagehand \in StagehandInits, outcome \in StepOutcomes : GenInit(stagehand, outcome)
  \/ \E outcome \in StepOutcomes : GenStep(outcome)
  \/ GenStepThrows
  \/ GenRunSucceeded
  \/ GenRunFailed
  \/ GenNextRun

SpecGen == InitGen /\ [][NextGen]_vars

\* ================================================================== claims
\* steps of a behaviour, named by the call they belong to
StartSessionStep(c) ==
  \E t \in Tasks, u \in StartUrls, m \in Models : StartSession(c, t, u, m)
RecordActionCallStep(c) == \E i \in ActionInputs : RecordActionBegin(c, i)
EndSessionCallStep(c)   == \E a \in EndArgs : EndSessionBegin(c, a)
\* the step in which a recordAction / endSession call leaves the collector
RecordActionEnds(c) == calls[c].op = "recordAction" /\ calls'[c].op = "idle"
EndSessionReturns(c) ==
  calls[c].op = "endSession" /\ calls'[c].op = "idle" /\ ret'[c].status = "returned"

IsPrefix(s, t) == Len(s) <= Len(t) /\ SubSeq(t, 1, Len(s)) = s

\* C1: startSession on a collector with an open session fails, and the open
\* session stays the collector's open session, unchanged.
C1_StartWhileOpenFails ==
  [][\A c \in AllCallers :
       (StartSessionStep(c) /\ currentSession # NoSession)
         => /\ ret'[c].status = "threw"
            /\ currentSession' = currentSession
            /\ sessions' = sessions]_vars

\* C2: endSession with no open session throws "No active session", appends
\* to none of the four logs and changes nothing of the collector; a
\* successful endSession leaves no session open, so the next one fails.
C2_EndWithoutSessionFails ==
  [][\A c \in AllCallers :
       /\ (EndSessionCallStep(c) /\ currentSession = NoSession)
            => /\ ret'[c] = Threw("endSession", NoActiveSessionEnd, FALSE)
               /\ calls'[c] = Idle
               /\ UNCHANGED <<logs, collector, sessions>>
       /\ EndSessionReturns(c) => currentSession' = NoSession]_vars

C2_Witness ==
  /\ ret["main"] = Threw("endSession", NoActiveSessionEnd, FALSE)
  /\ currentSession = NoSession
  /\ closed # {}
  /\ Len(tracesLog) = 1

\* C3: recordAction with no open session throws the no-active-session error
\* at once: the call does not reach a snapshot or the execute function, and
\* the raw action log is not appended to.
C3_RecordWithoutSessionFails ==
  [][\A c \in AllCallers :
       (RecordActionCallStep(c) /\ currentSession = NoSession)
         => /\ ret'[c] = Threw("recordAction", NoActiveSessionRecord, FALSE)
            /\ calls'[c] = Idle
            /\ UNCHANGED <<logs, execOrder, page, collector, sessions>>]_vars

C3_Witness ==
  /\ ret["main"] = Threw("recordAction", NoActiveSessionRecord, FALSE)
  /\ rawLog = <<>>
  /\ execOrder = <<>>

\* C4: every recordAction call made with a session open ends with exactly
\* one new record: the open session's actions and the raw action log both
\* grow by one entry, the record of that call.
C4_ExactlyOneRecordPerCall ==
  [][\A c \in AllCallers :
       RecordActionEnds(c)
         => /\ currentSession # NoSession
            /\ sessions'[currentSession].actions # <<>>
            /\ sessions'[currentSession].actions =
                 Append(sessions[currentSession].actions,
                        sessions'[currentSession].actions[Len(sessions'[currentSession].actions)])
            /\ Len(rawLog') = Len(rawLog) + 1
            /\ rawLog'[Len(rawLog')].id = calls[c].loc.actionId
            /\ sessions'[currentSession].actions[Len(sessions'[currentSession].actions)].id
                 = calls[c].loc.actionId]_vars

\* C5: when execute throws, recordAction returns normally, with a record
\* whose success flag is false and whose error message is non-empty, and
\* with an undefined result.
C5_ThrowIsRecordedNotPropagated ==
  \A c \in AllCallers :
    (ret[c].op = "recordAction" /\ ret[c].execThrew)
      => /\ ret[c].status = "returned"
         /\ ret[c].value.trace.success = FALSE
         /\ ret[c].value.trace.error \notin {{}, {""}}
         /\ ret[c].value.result = {}

\* C6: after a recordAction whose execute function threw, the same session
\* is still open, holds the failed record of that call, and still passes
\* the preconditions of recordAction and endSession.
C6_FailedActionKeepsSession ==
  [][\A c \in AllCallers :
       (RecordActionEnds(c) /\ ret'[c].execThrew)
         => /\ currentSession' = currentSession
            /\ currentSession' # NoSession
            /\ \E k \in 1..Len(sessions'[currentSession'].actions) :
                 /\ sessions'[currentSession'].actions[k].id = calls[c].loc.actionId
                 /\ sessions'[currentSession'].actions[k].success = FALSE
            /\ RecordActionPrecondition(currentSession')
            /\ EndSessionPrecondition(currentSession')]_vars

\* C7: a successful endSession of a session with n actions appends exactly
\* n examples to the SFT log, the i-th (from 0) built from action i and
\* carrying the session id and action_index i.
C7_OneExamplePerAction ==
  [][\A c \in AllCallers :
       EndSessionReturns(c)
         => LET s == sessions'[currentSession]
                n == Len(s.actions)
                old == Len(sftLog)
            IN /\ Len(sftLog') = old + n
               /\ SubSeq(sftLog', 1, old) = sftLog
               /\ \A i \in 0..(n - 1) :
                    /\ sftLog'[old + i + 1].metadata.source_trace_id = s.id
                    /\ sftLog'[old + i + 1].metadata.action_index = i
                    /\ sftLog'[old + i + 1].output.instruction = s.actions[i + 1].instruction
                    /\ sftLog'[old + i + 1].input.url = s.actions[i + 1].beforeDOM.url]_vars

C7_Witness ==
  /\ ret["main"].op = "endSession" /\ ret["main"].status = "returned"
  /\ Len(sessions[ret["main"].value].actions) = 2
  /\ Len(sftLog) >= 2
  /\ sftLog[Len(sftLog)].metadata.action_index = 1
  /\ sftLog[Len(sftLog)].metadata.source_trace_id = ret["main"].value

\* C8: each SFT example carries the success flag of its own action, so a
\* session with k failed actions yields exactly k examples with
\* success = false, whatever success flag endSession was given.
C8_ExampleKeepsActionFlag ==
  [][\A c \in AllCallers :
       EndSessionReturns(c)
         => LET s == sessions'[currentSession]
                n == Len(s.actions)
                old == Len(sftLog)
            IN /\ Len(sftLog') = old + n
               /\ \A i \in 1..n :
                    sftLog'[old + i].metadata.success = s.actions[i].success
               /\ Cardinality({i \in 1..n : ~sftLog'[old + i].metadata.success})
                    = Cardinality({i \in 1..n : ~s.actions[i].success})]_vars

C8_Witness ==
  \E k \in 1..Len(tracesLog) :
    /\ tracesLog[k].success
    /\ \E j \in 1..Len(tracesLog[k].actions) : ~tracesLog[k].actions[j].success
    /\ \E e \in 1..Len(sftLog) :
         /\ sftLog[e].metadata.source_trace_id = tracesLog[k].id
         /\ ~sftLog[e].metadata.success

\* C9: after a successful endSession no session is open; a closed session
\* is never the open session again; a later startSession opens a session
\* with an id no session had before and with no actions.
C9_Lifecycle ==
  [][/\ \A c \in AllCallers : EndSessionReturns(c) => currentSession' = NoSession
     /\ currentSession' \notin closed'
     /\ \A c \in AllCallers :
          StartSessionStep(c)
            => /\ currentSession' # NoSession
               /\ currentSession' \notin DOMAIN sessions
               /\ \A s \in DOMAIN sessions :
                    sessions[s].id # sessions'[currentSession'].id
               /\ sessions'[currentSession'].actions = <<>>]_vars

C9_Witness ==
  /\ closed # {}
  /\ currentSession # NoSession
  /\ currentSession \notin closed
  /\ sessions[currentSession].actions = <<>>
  /\ \E s \in closed : sessions[s].actions # <<>>

\* position of an action id in the order the execute functions were invoked
ExecPos(order, id) == CHOOSE k \in 1..Len(order) : order[k] = id

OrderedByExec(acts, order) ==
  /\ \A i \in 1..Len(acts) : \E k \in 1..Len(order) : order[k] = acts[i].id
  /\ \A i, j \in 1..Len(acts) :
       i < j => ExecPos(order, acts[i].id) < ExecPos(order, acts[j].id)

InFlightRecords == { c \in AllCallers : calls[c].op = "recordAction" }

\* C11 (as stated): at most one recordAction call is in flight on a collector,
\* so the snapshot/execute/snapshot steps of two calls never interleave.
C11_AtMostOneInFlight == Cardinality(InFlightRecords) <= 1

\* C11 (amended): nothing in the collector serializes recordAction. A call is
\* accepted exactly when a session is open, whether or not another call is in
\* flight, and two calls are in flight together only from the step in which
\* the caller begins one while the other has not ended.
C11_OverlapOnlyByCaller ==
  [][ /\ \A c \in AllCallers :
           RecordActionCallStep(c) =>
             ((calls'[c].op = "recordAction") <=> (currentSession # NoSession))
      /\ (Cardinality(InFlightRecords') > 1 /\ Cardinality(InFlightRecords) <= 1) =>
           \E c \in AllCallers : RecordActionCallStep(c) /\ InFlightRecords # {}
    ]_vars

\* two calls interleaved: one awaits its callback, the other its after-snapshot
C11_Witness ==
  /\ calls["main"].op = "recordAction" /\ calls["main"].pc = "execute"
  /\ calls["other"].op = "recordAction" /\ calls["other"].pc = "afterDOM"

\* the raw action log holds a line for this ActionRecord
InRawLog(trace) ==
  \E k \in 1..Len(rawLog) :
    /\ rawLog[k].id = trace.id
    /\ rawLog[k].instruction = trace.instruction
    /\ rawLog[k].success = trace.success
    /\ rawLog[k].error = trace.error
    /\ rawLog[k].beforeDOM = trace.beforeDOM
    /\ rawLog[k].afterDOM = trace.afterDOM

\* C12: at the moment a recordAction call has returned its record, and in
\* every later state, whether or not endSession is ever reached, the record
\* is a line of the raw action log.
C12_ReturnedActionsAreLogged ==
  /\ \A c \in AllCallers :
       (ret[c].op = "recordAction" /\ ret[c].status = "returned") =>
          InRawLog(ret[c].value.trace)
  /\ \A s \in DOMAIN sessions :
       \A i \in 1..Len(sessions[s].actions) : InRawLog(sessions[s].actions[i])

\* a call has returned, its session is still open and nothing has been closed
C12_Witness ==
  /\ ret["main"].op = "recordAction" /\ ret["main"].status = "returned"
  /\ currentSession # NoSession
  /\ tracesLog = <<>>
  /\ InRawLog(ret["main"].value.trace)

\* this step appends exactly the entry of session s, as the call of c ends it
AppendsSessionEntry(c, s) ==
  /\ Len(tracesLog') = Len(tracesLog) + 1
  /\ SubSeq(tracesLog', 1, Len(tracesLog)) = tracesLog
  /\ LET entry == tracesLog'[Len(tracesLog')]
     IN /\ entry.id = sessions[s].id
        /\ entry.actions = sessions[s].actions
        /\ entry.success = calls[c].args.success
        /\ entry.humanRating = calls[c].args.humanRating
        /\ entry.humanFeedback = calls[c].args.humanFeedback
        /\ entry.finalState = {CaptureDOMSnapshot(page, now)}

\* C13: an endSession that returns appends exactly one session entry, holding
\* all recorded actions in order and the given success, rating, feedback and
\* the final snapshot; in any endSession step, failing ones included, SFT
\* examples are written only when the session entry has been written, and the
\* slot is cleared only when the entry and one example per action are written.
C13_EndSessionWriteOrder ==
  [][\A c \in AllCallers :
        /\ EndSessionReturns(c) => AppendsSessionEntry(c, currentSession)
        /\ (calls[c].op = "endSession" /\ sftLog' # sftLog) =>
              AppendsSessionEntry(c, currentSession)
        /\ (calls[c].op = "endSession" /\ currentSession' # currentSession) =>
              /\ currentSession' = NoSession
              /\ AppendsSessionEntry(c, currentSession)
              /\ Len(sftLog') = Len(sftLog) + Len(sessions[currentSession].actions)
    ]_vars

\* a session with a recorded action was closed: one entry, its example, no slot
C13_Witness ==
  /\ ret["main"].op = "endSession" /\ ret["main"].status = "returned"
  /\ currentSession = NoSession
  /\ Len(tracesLog) = 1 /\ Len(tracesLog[1].actions) = 1
  /\ tracesLog[1].humanRating = {5} /\ tracesLog[1].finalState # {}
  /\ Len(sftLog) = 1

\* C14: no session id twice in the session log, no (session id, action
\* index) twice in the SFT example log, failed and retried endSession calls
\* included.
C14_NoDuplicateEntries ==
  /\ \A i, j \in 1..Len(tracesLog) : tracesLog[i].id = tracesLog[j].id => i = j
  /\ \A i, j \in 1..Len(sftLog) :
       (/\ sftLog[i].metadata.source_trace_id = sftLog[j].metadata.source_trace_id
        /\ sftLog[i].metadata.action_index = sftLog[j].metadata.action_index) => i = j

\* a createPreferencePair call of c has returned a pair
PairReturned(c) == ret[c].op = "createPreferencePair" /\ ret[c].status = "returned"
BetterOf(pair) == sessions[pair.metadata.chosen_trace_id]
WorseOf(pair)  == sessions[pair.metadata.rejected_trace_id]

\* the instruction texts of the two sessions first differ at 0-based index k
FirstDifferAt(better, worse, k) ==
  /\ k < Len(better.actions) /\ k < Len(worse.actions)
  /\ better.actions[k + 1].instruction # worse.actions[k + 1].instruction
  /\ \A j \in 1..k : better.actions[j].instruction = worse.actions[j].instruction

\* the text written for one action names that action's type, instruction,
\* selector and value
Linearizes(text, action) ==
  /\ text # EmptyString
  /\ text.action = action.type
  /\ text.instruction = action.instruction
  /\ text.selector = action.selector
  /\ text.value = action.value

\* C15: when the instruction texts first differ at index k, chosen is the
\* better session's action k, rejected the worse session's action k, and the
\* input is the better session's before-snapshot of action k followed by the
\* better session's actions before k (the last five of them).
C15_PairAtFirstDivergence ==
  \A c \in AllCallers :
    PairReturned(c) =>
      LET pair == ret[c].value
          better == BetterOf(pair)
          worse == WorseOf(pair)
      IN \A k \in 0..(Len(better.actions) - 1) :
           FirstDifferAt(better, worse, k) =>
             LET n == IF k <= 5 THEN k ELSE 5
                 dom == better.actions[k + 1].beforeDOM
             IN /\ Linearizes(pair.chosen, better.actions[k + 1])
                /\ Linearizes(pair.rejected, worse.actions[k + 1])
                /\ pair.input # EmptyString
                /\ pair.input.url = dom.url
                /\ pair.input.title = dom.title
                /\ pair.input.text = dom.text
                /\ pair.input.elements = FirstN(dom.interactiveElements, 30)
                /\ Len(pair.input.previous) = n
                /\ \A j \in 1..n :
                     /\ pair.input.previous[j].type = better.actions[k - n + j].type
                     /\ pair.input.previous[j].instruction =
                          better.actions[k - n + j].instruction

\* a pair for sessions that agree on instruction 0 and differ on instruction
\* 1, whose actions 0 are of different types and whose actions 1 were taken
\* on different pages
C15_Witness ==
  /\ PairReturned("main")
  /\ FirstDifferAt(BetterOf(ret["main"].value), WorseOf(ret["main"].value), 1)
  /\ BetterOf(ret["main"].value).actions[1].type # WorseOf(ret["main"].value).actions[1].type
  /\ BetterOf(ret["main"].value).actions[2].beforeDOM.url
       # WorseOf(ret["main"].value).actions[2].beforeDOM.url

\* C16: when the instruction texts agree at every index below the shorter
\* length, input, chosen and rejected are all the empty string.
C16_DegeneratePairIsEmpty ==
  \A c \in AllCallers :
    PairReturned(c) =>
      LET pair == ret[c].value
          better == BetterOf(pair)
          worse == WorseOf(pair)
      IN (\A k \in 0..(Len(better.actions) - 1) : ~FirstDifferAt(better, worse, k)) =>
            /\ pair.input = EmptyString
            /\ pair.chosen = EmptyString
            /\ pair.rejected = EmptyString

\* one session's instructions are a proper prefix of the other's, while the
\* types of their first actions differ
C16_Witness ==
  /\ PairReturned("main")
  /\ Len(BetterOf(ret["main"].value).actions) = 2
  /\ Len(WorseOf(ret["main"].value).actions) = 1
  /\ BetterOf(ret["main"].value).actions[1].instruction
       = WorseOf(ret["main"].value).actions[1].instruction
  /\ BetterOf(ret["main"].value).actions[1].type # WorseOf(ret["main"].value).actions[1].type
  /\ ret["main"].value.input = EmptyString

CreatePreferencePairStep(c) ==
  \E b \in closed, w \in closed, r \in Reasons : CreatePreferencePair(c, b, w, r)

\* C17: a createPreferencePair call appends exactly the pair it returns to the
\* preference-pair log, degenerate or not, and changes no other log, no
\* session and no collector; no step of startSession, recordAction or
\* endSession changes the preference-pair log.
C17_PreferenceLogFrame ==
  [][\A c \in AllCallers :
        /\ CreatePreferencePairStep(c) =>
             /\ prefLog' = Append(prefLog, ret'[c].value)
             /\ UNCHANGED <<rawLog, tracesLog, sftLog, collector, sessions>>
        /\ (\/ StartSessionStep(c)
            \/ RecordActionCallStep(c) \/ calls[c].op = "recordAction"
            \/ EndSessionCallStep(c) \/ calls[c].op = "endSession") =>
             prefLog' = prefLog
    ]_vars

\* a degenerate pair was appended while a session was open and another one
\* was already in the session log
C17_Witness ==
  /\ PairReturned("main")
  /\ Len(prefLog) = 1 /\ prefLog[1].input = EmptyString
  /\ currentSession # NoSession
  /\ Len(tracesLog) = 1

RECURSIVE ActionsIn(_)
\* the number of actions recorded in the sessions of S
ActionsIn(S) ==
  IF S = {} THEN 0
  ELSE LET s == CHOOSE x \in S : TRUE
       IN Len(sessions[s].actions) + ActionsIn(S \ {s})

\* C18: getStats never fails; it returns the number of lines of the session,
\* SFT and preference-pair logs at call time, all zero while no log file
\* exists; with the logs empty at the start that is one trace per closed
\* session and one SFT example per action of a closed session (m * n for m
\* closed sessions of n actions each).
C18_StatsCountLines ==
  \A c \in AllCallers :
    ret[c].op = "getStats" =>
      /\ ret[c].status = "returned"
      /\ ret[c].value.traces = Len(tracesLog)
      /\ ret[c].value.sftExamples = Len(sftLog)
      /\ ret[c].value.preferencePairs = Len(prefLog)
      /\ ret[c].value.traces = Cardinality(closed)
      /\ ret[c].value.sftExamples = ActionsIn(closed)
      /\ \A n \in 0..MaxEvents :
           (\A s \in closed : Len(sessions[s].actions) = n) =>
              ret[c].value.sftExamples = Cardinality(closed) * n

\* two sessions of one action each were closed, then getStats was called
C18_Witness ==
  /\ ret["main"].op = "getStats"
  /\ Cardinality(closed) = 2
  /\ \A s \in closed : Len(sessions[s].actions) = 1
  /\ ret["main"].value.traces = 2 /\ ret["main"].value.sftExamples = 2

\* C19: exportForHuggingFace called while the SFT example log does not exist
\* does not fail and produces an empty array of examples.
C19_ExportWithoutLogIsEmpty ==
  \A c \in AllCallers :
    (ret[c].op = "exportForHuggingFace" /\ ~FileExists(sftLog)) =>
       /\ ret[c].status = "returned"
       /\ ret[c].value.content = <<>>

\* the matching elements with a bounding box of non-zero area
Rendered(matching) == SelectSeq(matching, LAMBDA e : e.width # 0 /\ e.height # 0)

\* C20: a snapshot holds at most 100 interactive elements, and for a page
\* with more than 100 matching rendered elements exactly the first 100 of
\* them in document order.
C20_AtMost100Elements ==
  \A c \in AllCallers :
    (ret[c].op = "captureDOMSnapshot" /\ ret[c].status = "returned") =>
       /\ Len(ret[c].value.interactiveElements) <= 100
       /\ Len(Rendered(ret[c].value.matching)) > 100 =>
            ret[c].value.interactiveElements
              = SubSeq(Rendered(ret[c].value.matching), 1, 100)

\* the number of characters of one source that a text holds
RECURSIVE CharsOf(_, _)
CharsOf(t, src) ==
  IF t = <<>> THEN 0
  ELSE (IF Head(t).src = src THEN Head(t).len ELSE 0) + CharsOf(Tail(t), src)

\* h is the first TextLength(h) characters of t
RECURSIVE IsLeadingPart(_, _)
IsLeadingPart(h, t) ==
  \/ h = <<>>
  \/ /\ t # <<>>
     /\ Head(h).src = Head(t).src /\ Head(h).from = Head(t).from
     /\ \/ Head(h).len = Head(t).len /\ IsLeadingPart(Tail(h), Tail(t))
        \/ Head(h).len < Head(t).len /\ Tail(h) = <<>>

ActionRecordTag == "action"

\* C22: every line of the raw action log holds the ActionRecord as produced
\* and is tagged as an action record by its record-type discriminator.
C22_RawLinesAreTaggedRecords ==
  \A k \in 1..Len(rawLog) :
    /\ \E s \in DOMAIN sessions : \E i \in 1..Len(sessions[s].actions) :
         LET trace == sessions[s].actions[i]
         IN /\ rawLog[k].id = trace.id
            /\ rawLog[k].instruction = trace.instruction
            /\ rawLog[k].beforeDOM = trace.beforeDOM
            /\ rawLog[k].afterDOM = trace.afterDOM
            /\ rawLog[k].success = trace.success
            /\ rawLog[k].duration_ms = trace.duration_ms
            /\ rawLog[k].timestamp = trace.timestamp
    /\ rawLog[k].type = ActionRecordTag

\* the action with this id has had its execute callback invoked
Executed(actionId) == \E k \in 1..Len(execOrder) : execOrder[k] = actionId

\* C23: in a recordAction call the before-snapshot is taken before execute
\* is invoked, the settle delay comes after execute, whether it resolved or
\* threw, and the after-snapshot after the delay; so every record's
\* after-snapshot is stamped at least 500 ms after its before-snapshot and
\* its duration is not negative.
C23_StepOrderAndTimes ==
  /\ \A c \in AllCallers :
       calls[c].op = "recordAction" =>
         /\ calls[c].pc \in {"beforeDOM", "beforeShot"} => ~Executed(calls[c].loc.actionId)
         /\ calls[c].pc = "execute" =>
              /\ ~Executed(calls[c].loc.actionId)
              /\ calls[c].loc.beforeDOM.timestamp <= now
         /\ calls[c].pc = "settle" =>
              /\ Executed(calls[c].loc.actionId)
              /\ calls[c].loc.beforeDOM.timestamp <= now
         /\ calls[c].pc = "afterDOM" =>
              /\ Executed(calls[c].loc.actionId)
              /\ now >= calls[c].loc.beforeDOM.timestamp + 500
         /\ calls[c].pc = "afterShot" =>
              calls[c].loc.afterDOM.timestamp >= calls[c].loc.beforeDOM.timestamp + 500
  /\ \A s \in DOMAIN sessions : \A i \in 1..Len(sessions[s].actions) :
       LET trace == sessions[s].actions[i]
       IN /\ Executed(trace.id)
          /\ trace.afterDOM.timestamp >= trace.beforeDOM.timestamp + 500
          /\ trace.duration_ms >= 0

\* a record of an action whose execute threw, taken while the clock moved
C23_Witness ==
  /\ currentSession # NoSession
  /\ Len(sessions[currentSession].actions) = 1
  /\ ~sessions[currentSession].actions[1].success
  /\ sessions[currentSession].actions[1].afterDOM.timestamp
       > sessions[currentSession].actions[1].beforeDOM.timestamp + 500
  /\ sessions[currentSession].actions[1].duration_ms > 500

\* C24: the humanRating of a closed session, when present, is an integer
\* from 1 to 5, whatever was passed to endSession.
C24_RatingInRange ==
  /\ \A s \in closed : sessions[s].humanRating \subseteq 1..5
  /\ \A k \in 1..Len(tracesLog) : tracesLog[k].humanRating \subseteq 1..5

\* C25: the input of the example for the action at index i lists as previous
\* actions exactly the min(i, 5) actions just before index i, oldest first
\* (an empty list is an omitted section), so none when i = 0, and never the
\* action at i or a later one.
C25_PreviousActionsWindow ==
  \A c \in AllCallers :
    ret[c].op = "generateSFTExamples" =>
      LET session == ret[c].value
      IN /\ Len(sftLog) = Len(session.actions)
         /\ \A k \in 1..Len(sftLog) :
              LET i == sftLog[k].metadata.action_index
                  n == IF i <= 5 THEN i ELSE 5
                  previous == sftLog[k].input.previous
              IN /\ i = k - 1
                 /\ Len(previous) = n
                 /\ \A j \in 1..n :
                      /\ previous[j].type = session.actions[i - n + j].type
                      /\ previous[j].instruction = session.actions[i - n + j].instruction

\* a session of seven actions: the example at index 6 lists the five actions
\* at indices 1..5, not the one at index 0, which is of another type than
\* the one at index 1; the example at index 0 lists none
C25_Witness ==
  /\ ret["main"].op = "generateSFTExamples"
  /\ Len(ret["main"].value.actions) = 7
  /\ ret["main"].value.actions[1].type # ret["main"].value.actions[2].type
  /\ Len(sftLog) = 7
  /\ Len(sftLog[7].input.previous) = 5
  /\ sftLog[7].input.previous[1].type = ret["main"].value.actions[2].type
  /\ sftLog[1].input.previous = <<>>

\* an append of the call of c fails in this step
AppendFailsStep(c) ==
  \/ RecordAppendFails(c)
  \/ \E n \in 0..MaxEvents : EndSessionWriteFails(c, n)

\* C26: a recordAction whose append to the raw action log fails, and an
\* endSession whose append to the session log or the SFT log fails, ends by
\* throwing; a call that returns normally has all its lines in the logs.
C26_AppendFailurePropagates ==
  [][\A c \in AllCallers :
        /\ AppendFailsStep(c) =>
             /\ ret'[c].status = "threw"
             /\ ret'[c].error = StorageError
        /\ (RecordActionEnds(c) /\ ret'[c].status = "returned") =>
             /\ Len(rawLog') = Len(rawLog) + 1
             /\ rawLog'[Len(rawLog')].id = ret'[c].value.trace.id
        /\ EndSessionReturns(c) =>
             /\ Len(tracesLog') = Len(tracesLog) + 1
             /\ Len(sftLog') = Len(sftLog) + Len(sessions[currentSession].actions)
    ]_vars

\* the raw-log append of a recordAction failed: the caller has seen the
\* failure, the record is in the session and the raw log has no line
C26_Witness ==
  /\ ret["main"].op = "recordAction" /\ ret["main"].status = "threw"
  /\ ret["main"].error = StorageError
  /\ currentSession # NoSession
  /\ Len(sessions[currentSession].actions) = 1
  /\ rawLog = <<>>

\* a snapshot of the call of c cannot be taken in this step
SnapshotFailsStep(c) == SnapshotFails(c)

\* C27: when a before- or after-snapshot of a recordAction call cannot be
\* taken, the call throws, no record of it is added to any session or to the
\* raw action log, and the open session stays the open session.
C27_SnapshotFailureIsFatal ==
  [][\A c \in AllCallers :
        SnapshotFailsStep(c) =>
          /\ ret'[c].status = "threw" /\ ret'[c].op = "recordAction"
          /\ calls'[c].op = "idle"
          /\ UNCHANGED <<sessions, rawLog, actionBuffer, currentSession>>
          /\ currentSession # NoSession
    ]_vars

\* the after-snapshot failed once the action had run: the caller sees the
\* failure, the session is open and holds no record, the raw log no line
C27_Witness ==
  /\ ret["main"].op = "recordAction" /\ ret["main"].status = "threw"
  /\ ret["main"].error = SnapshotError
  /\ Len(execOrder) = 1
  /\ currentSession # NoSession
  /\ sessions[currentSession].actions = <<>>
  /\ rawLog = <<>>

\* the cumulative cost summed from the cost log
TotalCost == GetTotalCost(loop.costLog)
\* the step spawns the AI process
SpawnStep == loop'.spawned = loop.spawned + 1

Exited == loop.pc = "exited"
\* how a run that is over came to its exit code
OutcomeExplained ==
  /\ Cardinality(loop.exit) = 1
  /\ loop.exit \subseteq {0, 1, 2, 3}
  /\ loop.exit = {0} => (loop.spawned >= 1 /\ loop.output.complete)
  /\ loop.exit = {2} => (TotalCost >= MAX_COST /\ loop.spawned < loop.MAX_ITERATIONS)
  /\ loop.exit = {3} => /\ loop.spawned >= 1
                        /\ ~loop.output.complete
                        /\ loop.CONSECUTIVE_FAILURES >= loop.MAX_CONSECUTIVE_FAILURES
  /\ loop.exit = {1} => /\ loop.spawned = loop.MAX_ITERATIONS
                        /\ ~loop.output.complete
                        /\ loop.spawned >= 1
                              => loop.CONSECUTIVE_FAILURES < loop.MAX_CONSECUTIVE_FAILURES

\* C29: every run of the loop comes to an end, it never runs more than
\* MAX_ITERATIONS iterations, and it ends with exactly one exit code: 0 after
\* an iteration whose output holds the COMPLETE signal, 2 at the cost limit,
\* 3 at the consecutive-failure limit, 1 after MAX_ITERATIONS iterations
\* that led to none of these.
C29_LoopTerminates ==
  /\ <>Exited
  /\ [](loop.spawned <= loop.MAX_ITERATIONS)
  /\ [](Exited => OutcomeExplained)
  /\ [](~Exited => loop.exit = {})
\* all MaxIterations iterations ran and the run left with exit code 1
C29_Witness ==
  /\ Exited
  /\ loop.exit = {1}
  /\ loop.MAX_ITERATIONS = MaxIterations
  /\ loop.spawned = MaxIterations

\* the last line of the cost log is the line of the iteration that just ran
CostOfIterationLogged(l) ==
  /\ Len(l.costLog) = l.earlier + l.spawned
  /\ l.costLog[Len(l.costLog)].iteration = l.i
  /\ l.costLog[Len(l.costLog)].cost =
       EstimateIterationCost(EST_INPUT_TOKENS, l.output.size \div 4)

\* C30: once an iteration's output holds the COMPLETE signal the loop spawns
\* no further AI process; it logs the iteration's cost, and its next step
\* after that is the exit with code 0, whatever the iteration's quality
\* classification and the consecutive-failure count are.
C30_CompleteStopsLoop ==
  [][ loop.output.complete
        => /\ ~SpawnStep
           /\ loop.pc = "ended"
                 => (loop'.pc = "logged" /\ CostOfIterationLogged(loop'))
           /\ loop.pc = "logged"
                 => /\ CostOfIterationLogged(loop)
                    /\ loop'.pc = "exited" /\ loop'.exit = {0}
                    /\ loop'.costLog = loop.costLog ]_vars
\* the second iteration, a second failure in a row at a limit of two, holds
\* the COMPLETE signal: the run left with exit code 0, its cost logged
C30_Witness ==
  /\ loop.exit = {0}
  /\ loop.spawned = 2
  /\ loop.QUALITY \in {"error", "empty", "unclear"}
  /\ loop.MAX_CONSECUTIVE_FAILURES = 2
  /\ loop.CONSECUTIVE_FAILURES = 1
  /\ CostOfIterationLogged(loop)

\* the classifications that count as a failed iteration
FailedClasses == {"error", "empty", "unclear"}
\* the cost lines this run has written, one per iteration that ran
RunLog(l) == SubSeq(l.costLog, l.earlier + 1, Len(l.costLog))
\* how many iterations in a row, up to the last one, were classified failed
RECURSIVE FailedInARow(_)
FailedInARow(log) ==
  IF log = <<>> \/ log[Len(log)].status \notin FailedClasses THEN 0
  ELSE 1 + FailedInARow(SubSeq(log, 1, Len(log) - 1))

\* C31 as stated: after each iteration the counter is one more when the
\* iteration was classified error, empty or unclear and 0 when it was
\* productive, it never exceeds MAX_CONSECUTIVE_FAILURES, and the run aborts
\* with exit code 3 exactly when MAX_CONSECUTIVE_FAILURES iterations in a row
\* were classified error, empty or unclear.
C31_AbortExactlyAtLimit ==
  [][ loop.pc = "logged"
        => /\ loop.QUALITY \in FailedClasses
                => loop'.CONSECUTIVE_FAILURES = loop.CONSECUTIVE_FAILURES + 1
           /\ loop.QUALITY = "productive" => loop'.CONSECUTIVE_FAILURES = 0
           /\ loop'.CONSECUTIVE_FAILURES <= loop.MAX_CONSECUTIVE_FAILURES
           /\ loop'.exit = {3}
                <=> FailedInARow(RunLog(loop)) = loop.MAX_CONSECUTIVE_FAILURES ]_vars

\* C31 (amended): an iteration whose output holds the COMPLETE signal ends
\* the run with exit code 0 and leaves the counter as it was. After any other
\* iteration the counter is the number of iterations in a row classified
\* error, empty or unclear (one more after such an iteration, 0 after a
\* productive one), and the run aborts with exit code 3 exactly when the
\* counter is then at or above MAX_CONSECUTIVE_FAILURES; with a limit of at
\* least 1 that is exactly at the limit, which the counter never exceeds.
C31_AbortAtLimitUnlessComplete ==
  [][ loop.pc = "logged"
        => IF loop.output.complete
             THEN /\ loop'.exit = {0}
                  /\ loop'.CONSECUTIVE_FAILURES = loop.CONSECUTIVE_FAILURES
             ELSE /\ loop.QUALITY \in FailedClasses
                       => loop'.CONSECUTIVE_FAILURES = loop.CONSECUTIVE_FAILURES + 1
                  /\ loop.QUALITY = "productive" => loop'.CONSECUTIVE_FAILURES = 0
                  /\ loop'.CONSECUTIVE_FAILURES = FailedInARow(RunLog(loop))
                  /\ loop'.exit = {3}
                       <=> loop'.CONSECUTIVE_FAILURES >= loop.MAX_CONSECUTIVE_FAILURES
                  /\ loop.MAX_CONSECUTIVE_FAILURES >= 1
                       => loop'.CONSECUTIVE_FAILURES <= loop.MAX_CONSECUTIVE_FAILURES ]_vars
\* a productive iteration reset the counter, then two failed ones in a row
\* reached the limit of two: exit code 3
C31_Witness ==
  /\ loop.exit = {3}
  /\ loop.MAX_CONSECUTIVE_FAILURES = 2
  /\ loop.spawned = 3
  /\ loop.CONSECUTIVE_FAILURES = 2
  /\ FailedInARow(RunLog(loop)) = 2

Passing(userStories) == {k \in DOMAIN userStories : userStories[k].passes}
\* the step marks story k, the first one in list order that does not pass,
\* and changes no other story
MarksFirstIncomplete(k) ==
  /\ ~demo.userStories[k].passes
  /\ \A j \in 1..(k - 1) : demo.userStories[j].passes
  /\ demo'.userStories = [demo.userStories EXCEPT ![k].passes = TRUE]

\* C33: in the demo loop a story's passes flag never goes back to false and
\* prd.json changes only by marking the first story with passes = false; an
\* iteration that found an incomplete story has marked exactly one when it
\* ends; with n stories the loop reports completion in iteration n + 1 when
\* maxIterations is at least n + 1, and otherwise stops after maxIterations
\* iterations without completion.
C33_DemoOneStoryPerIteration ==
  /\ [][ /\ \A k \in DOMAIN demo.userStories :
               demo.userStories[k].passes => demo'.userStories[k].passes
         /\ demo'.userStories # demo.userStories
               => \E k \in DOMAIN demo.userStories : MarksFirstIncomplete(k)
         /\ (demo.pc = "learned" /\ demo'.pc = "loop")
               => Cardinality(Passing(demo'.userStories)) = demo.i ]_vars
  /\ [](demo.pc = "done"
          => LET n == Len(demo.userStories)
             IN  IF demo.maxIterations >= n + 1
                   THEN /\ demo.outcome = "complete"
                        /\ demo.i = n + 1
                        /\ Passing(demo.userStories) = DOMAIN demo.userStories
                   ELSE /\ demo.outcome = "maxReached"
                        /\ Len(demo.iterations) = demo.maxIterations
                        /\ Cardinality(Passing(demo.userStories)) = demo.maxIterations)
\* the call ralphLoop(10) of the script: three iterations marked the three
\* stories in list order and the fourth reported completion
C33_Witness ==
  /\ demo.pc = "done"
  /\ demo.maxIterations = 10
  /\ demo.outcome = "complete"
  /\ demo.i = 4
  /\ [k \in 1..3 |-> demo.iterations[k].task_completed] = <<"US-001", "US-002", "US-003">>

\* the statuses of a poll after which generateVideo goes on polling
StillRunning == {"pending", "processing"}
\* the status of the result generateVideo returned
ResultStatus == (CHOOSE r \in video.result : TRUE).status

StepActions(session) == SubSeq(session.actions, 2, Len(session.actions))
\* some step's action of the run failed
SomeStepFailed(session) ==
  \E k \in DOMAIN StepActions(session) : ~StepActions(session)[k].success

\* C35: a run's session is closed with success = true and rating 5, and the
\* run counted as successful, only if every step's action of the run
\* succeeded; a run in which some step's action failed is closed with
\* success = false and counted as failed.
C35_SuccessOnlyIfAllStepsSucceeded ==
  /\ \A k \in DOMAIN tracesLog :
       SomeStepFailed(tracesLog[k])
         => (~tracesLog[k].success /\ tracesLog[k].humanRating # {5})
  /\ gen.pc \in {"run", "finished"}
       => gen.failCount >=
            Cardinality({k \in DOMAIN tracesLog : SomeStepFailed(tracesLog[k])})

\* generateTrainingData is over: it returned or it rejected
GenOver == gen.pc \in {"finished", "rejected"}
\* the number of lines of traces.jsonl that hold the session
TimesEnded(sessionId) ==
  Cardinality({k \in DOMAIN tracesLog : tracesLog[k].id = sessionId})

\* C36: when generateTrainingData is over it has attempted every run of every
\* task, successCount + failCount is tasks.length * runsPerTask, and every
\* run has a session that was ended exactly once.
C36_EveryRunAttempted ==
  GenOver
    => LET total == Len(gen.tasks) * gen.runsPerTask
       IN  /\ gen.attempted = total
           /\ gen.successCount + gen.failCount = total
           /\ Cardinality(DOMAIN sessions) = total
           /\ \A sessionId \in DOMAIN sessions : TimesEnded(sessionId) = 1

\* the session that was open when the recordAction call that drew actionId
\* began: ids are drawn in order, the open session is the last one started
SessionAtBegin(actionId) ==
  CHOOSE sessionId \in DOMAIN sessions :
    /\ sessionId < actionId
    /\ \A other \in DOMAIN sessions : other < actionId => other <= sessionId

\* C37: a record is only ever in the session that was open when its
\* recordAction call began, also when endSession and a new startSession
\* completed while the call was suspended; and no step changes a session
\* that endSession has closed.
C37_RecordStaysWithItsSession ==
  /\ [](\A sessionId \in DOMAIN sessions :
          \A k \in DOMAIN sessions[sessionId].actions :
            SessionAtBegin(sessions[sessionId].actions[k].id) = sessionId)
  /\ [][\A sessionId \in closed : sessions'[sessionId] = sessions[sessionId]]_vars

\* the action ids of the lines of raw_actions.jsonl
RawLogIds == {rawLog[j].id : j \in DOMAIN rawLog}

\* C38: in every reachable state, also after failed log writes, the id of
\* every action record inside a line of the session log is the id of a line
\* of the raw action log.
C38_SessionLogWithinRawLog ==
  \A k \in DOMAIN tracesLog :
    \A n \in DOMAIN tracesLog[k].actions :
      tracesLog[k].actions[n].id \in RawLogIds

\* the step in which endSession fails at its final snapshot
EndSnapshotFailsStep(c) ==
  /\ calls[c].op = "endSession"
  /\ ret'[c] = Threw("endSession", SnapshotError, FALSE)
\* no outcome is set on the session: the fields are as startSession left them
NoOutcomeSet(session) ==
  /\ session.success = FALSE
  /\ session.humanRating = {}
  /\ session.humanFeedback = {}
  /\ session.finalState = {}
  /\ session.totalDuration_ms = 0

\* C39: when endSession fails while capturing the final snapshot the session
\* is still the open session, its outcome fields (success, rating, feedback,
\* final snapshot, total duration) are as they were before the call, and
\* the call has appended nothing to any log.
C39_FailedEndLeavesSessionOpen ==
  /\ [][\A c \in AllCallers :
          EndSnapshotFailsStep(c)
            => /\ currentSession' # NoSession
               /\ currentSession' = calls[c].loc.target
               /\ logs' = logs ]_vars
  /\ [](\A c \in AllCallers :
          (ret[c] = Threw("endSession", SnapshotError, FALSE) /\ currentSession # NoSession)
            => NoOutcomeSet(sessions[currentSession]))

====
